---------------------------- MODULE Spec2Model ----------------------------
(***************************************************************************)
(* A model of the Yjs (v13) CRDT core: the per-client struct store, the    *)
(* delete set, the transaction cleanup (gc pass, merge pass, update        *)
(* emission), the application of update messages on several replicas, and  *)
(* the control flow of transact with its deferred observer calls.          *)
(*                                                                         *)
(* JavaScript arrays are 0-based: At, SetAt and Splice keep the indices of *)
(* the source.  An ID is the pair <<client, clock>>; NoID stands for null. *)
(***************************************************************************)
EXTENDS Integers, Sequences, FiniteSets, TLC

\* ------------------------------------------------------------------ bounds
MaxOps == 3        \* local edits (insert / delete) made over all replicas
MaxDeliver == 3    \* update messages applied over all replicas
MaxInsertLen == 2  \* units inserted by one local insert

Authors == {1, 2}       \* client ids of the replicas that edit
Replicas == {1, 2}
NoID == <<0, 0>>
Thrown == -1            \* findIndexSS: error.unexpectedCase()

\* ----------------------------------------------------------------- helpers
At(seq, i) == seq[i + 1]
SetAt(seq, i, v) == [seq EXCEPT ![i + 1] = v]
Splice(seq, pos, del, ins) ==
  SubSeq(seq, 1, pos) \o ins \o SubSeq(seq, pos + del + 1, Len(seq))
Min2(a, b) == IF a <= b THEN a ELSE b
Max2(a, b) == IF a >= b THEN a ELSE b
IdOf(s) == <<s.client, s.clock>>
\* the payload of the unit (client, clock): what the author typed there
CharOf(client, clock) == client * 10 + clock

\* position (1-based) of a unit in a list of units, 0 when absent / null
RECURSIVE PosIn(_, _, _)
PosIn(ord, id, i) ==
  IF i > Len(ord) THEN 0
  ELSE IF ord[i] = id THEN i ELSE PosIn(ord, id, i + 1)
PosOf(ord, id) == IF id = NoID THEN 0 ELSE PosIn(ord, id, 1)

\* ------------------------------------------------------------ struct kinds
\* ItemString.length is string.length; ItemDeleted and GC carry a length
Length(s) == IF s.kind = "ItemString" THEN Len(s.content) ELSE s.len

ItemString(client, clock, origin, rightOrigin, string) ==
  [client |-> client, clock |-> clock, kind |-> "ItemString", deleted |-> FALSE,
   content |-> string, len |-> 0, origin |-> origin, rightOrigin |-> rightOrigin]

ItemDeleted(client, clock, origin, rightOrigin, len) ==
  [client |-> client, clock |-> clock, kind |-> "ItemDeleted", deleted |-> TRUE,
   content |-> << >>, len |-> len, origin |-> origin, rightOrigin |-> rightOrigin]

GC(client, clock, len) ==
  [client |-> client, clock |-> clock, kind |-> "GC", deleted |-> TRUE,
   content |-> << >>, len |-> len, origin |-> NoID, rightOrigin |-> NoID]

LastId(s) == <<s.client, s.clock + Length(s) - 1>>

\* ------------------------------------------------------------ StructStore
\* store.clients: client -> array of structs; << >> stands for "no entry"
EmptyClients == [c \in Authors |-> << >>]

getState(clients, client) ==
  LET structs == clients[client]
  IN IF structs = << >> THEN 0
     ELSE LET lastStruct == At(structs, Len(structs) - 1)
          IN lastStruct.clock + Length(lastStruct)

\* a client without structs has no entry in the Map; get(client) || 0 reads 0
getStateVector(clients) ==
  [c \in Authors |->
     IF clients[c] = << >> THEN 0
     ELSE LET struct == At(clients[c], Len(clients[c]) - 1)
          IN struct.clock + Length(struct)]

integretyCheck(clients) ==
  \A c \in Authors :
    \A i \in 1 .. Len(clients[c]) - 1 :
      LET l == At(clients[c], i - 1)
          r == At(clients[c], i)
      IN l.clock + Length(l) = r.clock

\* addStruct: [ok |-> FALSE] is the thrown error.unexpectedCase()
\* a faulty addStruct without the test of the last struct: the refusal of a
\* gap or an overlap depends on it
addStructMissingCheck(clients, struct) ==
  [ok |-> TRUE, clients |-> [clients EXCEPT ![struct.client] = Append(@, struct)]]

addStruct(clients, struct) ==
  LET structs == clients[struct.client]
  IN IF structs = << >>
     THEN [ok |-> TRUE, clients |-> [clients EXCEPT ![struct.client] = <<struct>>]]
     ELSE LET lastStruct == At(structs, Len(structs) - 1)
          IN IF lastStruct.clock + Length(lastStruct) # struct.clock
             THEN [ok |-> FALSE, clients |-> clients]
             ELSE [ok |-> TRUE,
                   clients |-> [clients EXCEPT ![struct.client] = Append(structs, struct)]]

\* a faulty nextID that does not read the state: the acceptance of a new
\* struct by addStruct depends on the clock nextID returns
nextIDStale(clients, clientID) == <<clientID, 0>>

\* nextID(transaction): createID(y.clientID, getState(y.store, y.clientID))
nextID(clients, clientID) == <<clientID, getState(clients, clientID)>>

RECURSIVE findIndexSSLoop(_, _, _, _)
findIndexSSLoop(structs, clock, left, right) ==
  IF left <= right
  THEN LET midindex == (left + right) \div 2
           mid == At(structs, midindex)
           midclock == mid.clock
       IN IF midclock <= clock
          THEN IF clock < midclock + Length(mid)
               THEN midindex
               ELSE findIndexSSLoop(structs, clock, midindex + 1, right)
          ELSE findIndexSSLoop(structs, clock, left, midindex - 1)
  ELSE Thrown

\* a faulty findIndexSS whose search begins at the second struct
findIndexSSFromOne(structs, clock) == findIndexSSLoop(structs, clock, 1, Len(structs) - 1)

findIndexSS(structs, clock) == findIndexSSLoop(structs, clock, 0, Len(structs) - 1)


\* --------------------------------------------------------------- DeleteSet
\* ds.clients: client -> array of DeleteItem; << >> stands for "no entry"
EmptyDS == [c \in Authors |-> << >>]
DeleteItem(clock, len) == [clock |-> clock, len |-> len]

addToDeleteSet(ds, id, length) ==
  [ds EXCEPT ![id[1]] = Append(@, DeleteItem(id[2], length))]

\* dels.sort((a, b) => a.clock - b.clock): a stable insertion sort
RECURSIVE InsertByClock(_, _)
InsertByClock(sorted, d) ==
  IF sorted = << >> THEN <<d>>
  ELSE IF sorted[Len(sorted)].clock <= d.clock THEN Append(sorted, d)
  ELSE Append(InsertByClock(SubSeq(sorted, 1, Len(sorted) - 1), d), sorted[Len(sorted)])

RECURSIVE SortByClock(_)
SortByClock(dels) ==
  IF dels = << >> THEN << >>
  ELSE InsertByClock(SortByClock(SubSeq(dels, 1, Len(dels) - 1)), dels[Len(dels)])

\* the loop of sortAndMergeDeleteSet: i is the read pointer, j the insert position
RECURSIVE sortAndMergeLoop(_, _, _)
sortAndMergeLoop(dels, i, j) ==
  IF i < Len(dels)
  THEN LET left == At(dels, j - 1)
           right == At(dels, i)
       IN IF left.clock + left.len = right.clock
          THEN sortAndMergeLoop(SetAt(dels, j - 1, [left EXCEPT !.len = @ + right.len]), i + 1, j)
          ELSE sortAndMergeLoop(IF j < i THEN SetAt(dels, j, right) ELSE dels, i + 1, j + 1)
  ELSE SubSeq(dels, 1, j)

\* the loop without `left.len += right.len`
RECURSIVE sortAndMergeLoopNoGrow(_, _, _)
sortAndMergeLoopNoGrow(dels, i, j) ==
  IF i < Len(dels)
  THEN LET left == At(dels, j - 1)
           right == At(dels, i)
       IN IF left.clock + left.len = right.clock
          THEN sortAndMergeLoopNoGrow(dels, i + 1, j)
          ELSE sortAndMergeLoopNoGrow(IF j < i THEN SetAt(dels, j, right) ELSE dels, i + 1, j + 1)
  ELSE SubSeq(dels, 1, j)

\* a faulty sortAndMergeDeleteSet that drops the right range of a merge
\* without growing the left one: the units covered depend on line 133
sortAndMergeDropsRight(ds) ==
  [c \in Authors |->
     IF ds[c] = << >> THEN << >> ELSE sortAndMergeLoopNoGrow(SortByClock(ds[c]), 1, 1)]

\* a faulty sortAndMergeDeleteSet without the sort: the order of the result
\* depends on it
sortAndMergeNoSort(ds) ==
  [c \in Authors |->
     IF ds[c] = << >> THEN << >> ELSE sortAndMergeLoop(ds[c], 1, 1)]

sortAndMergeDeleteSet(ds) ==
  [c \in Authors |->
     IF ds[c] = << >> THEN << >> ELSE sortAndMergeLoop(SortByClock(ds[c]), 1, 1)]

RECURSIVE findIndexDSLoop(_, _, _, _)
findIndexDSLoop(dis, clock, left, right) ==
  IF left <= right
  THEN LET midindex == (left + right) \div 2
           mid == At(dis, midindex)
           midclock == mid.clock
       IN IF midclock <= clock
          THEN IF clock < midclock + mid.len
               THEN midindex
               ELSE findIndexDSLoop(dis, clock, midindex + 1, right)
          ELSE findIndexDSLoop(dis, clock, left, midindex - 1)
  ELSE Thrown    \* null

\* a faulty search that looks at the first range only: isDeleted on a client
\* with several ranges depends on the search over all of them
findIndexDSFirstOnly(dis, clock) == findIndexDSLoop(dis, clock, 0, 0)

findIndexDS(dis, clock) == findIndexDSLoop(dis, clock, 0, Len(dis) - 1)

isDeleted(ds, id) == ds[id[1]] # << >> /\ findIndexDS(ds[id[1]], id[2]) # Thrown

\* createDeleteSetFromStructStore, lines 172-176: the run of deleted structs
\* that begins at structs[i] is followed while the next struct is contiguous
\* and deleted: <<index of the last struct of the run, len>>
RECURSIVE createRun(_, _, _, _)
createRun(structs, i, clock, len) ==
  IF i + 1 < Len(structs)
     /\ At(structs, i + 1).clock = clock + len
     /\ At(structs, i + 1).deleted
  THEN createRun(structs, i + 1, clock,
                 len + (IF At(structs, i + 1).kind = "ItemString"
                        THEN Len(At(structs, i + 1).content) ELSE At(structs, i + 1).len))
  ELSE <<i, len>>

\* lines 167-179: the loop over the structs of one client
RECURSIVE createDsitems(_, _, _)
createDsitems(structs, i, dsitems) ==
  IF i < Len(structs)
  THEN LET struct == At(structs, i)
       IN IF struct.deleted
          THEN LET run == createRun(structs, i, struct.clock,
                                    IF struct.kind = "ItemString"
                                    THEN Len(struct.content) ELSE struct.len)
               IN createDsitems(structs, run[1] + 1,
                                Append(dsitems, DeleteItem(struct.clock, run[2])))
          ELSE createDsitems(structs, i + 1, dsitems)
  ELSE dsitems

\* a faulty createDeleteSetFromStructStore that records one range per deleted
\* struct: the merged form of the result depends on the inner loop
createDeleteSetPerStruct(clients) ==
  [c \in DOMAIN clients |->
     LET dels == SelectSeq(clients[c], LAMBDA struct : struct.deleted)
     IN [k \in 1 .. Len(dels) |->
           DeleteItem(dels[k].clock,
                      IF dels[k].kind = "ItemString" THEN Len(dels[k].content)
                      ELSE dels[k].len)]]

\* createDeleteSetFromStructStore(ss); << >> stands for "no entry"
createDeleteSetFromStructStore(clients) ==
  [c \in DOMAIN clients |->
     IF clients[c] = << >> THEN << >> ELSE createDsitems(clients[c], 0, << >>)]

\* ------------------------------------------------------------------- items
(* The state of one document while a transaction runs on it:               *)
(*   clients  store.clients                                                *)
(*   ord      the root sequence: the units in linked-list order, deleted   *)
(*            units included (item.left / item.right are its neighbours)   *)
(*   pend     store.pendingClientsStructRefs: struct refs not yet          *)
(*            integrated                                                   *)
(*   pdr      store.pendingDeleteReaders                                   *)
(*   ds, ms       transaction.deleteSet, transaction._mergeStructs         *)
(*   bs, as       transaction.beforeState, transaction.afterState          *)
EmptyDoc ==
  [clients |-> EmptyClients, ord |-> << >>, pend |-> {}, pdr |-> << >>,
   ds |-> EmptyDS, ms |-> << >>, bs |-> [c \in Authors |-> 0],
   as |-> [c \in Authors |-> 0]]

\* a faulty splitAt whose right half does not take over the deleted flag
splitAtRightLive(s, diff) ==
  <<[s EXCEPT !.content = IF s.kind = "ItemString" THEN SubSeq(s.content, 1, diff) ELSE << >>,
              !.len = IF s.kind = "ItemString" THEN 0 ELSE diff],
    [s EXCEPT !.clock = s.clock + diff,
              !.origin = <<s.client, s.clock + diff - 1>>,
              !.deleted = FALSE,
              !.content = IF s.kind = "ItemString"
                          THEN SubSeq(s.content, diff + 1, Len(s.content)) ELSE << >>,
              !.len = IF s.kind = "ItemString" THEN 0 ELSE s.len - diff]>>

\* a faulty splitAt that shortens this.string before it slices the right
\* half from it: the right half's content depends on the order of lines 67, 68
splitAtLeftFirst(s, diff) ==
  <<[s EXCEPT !.content = IF s.kind = "ItemString" THEN SubSeq(s.content, 1, diff) ELSE << >>,
              !.len = IF s.kind = "ItemString" THEN 0 ELSE diff],
    [s EXCEPT !.clock = s.clock + diff,
              !.origin = <<s.client, s.clock + diff - 1>>,
              !.content = << >>,
              !.len = IF s.kind = "ItemString" THEN 0 ELSE s.len - diff]>>

\* ItemString.splitAt / splitItem: <<left half, right half>>
splitAt(s, diff) ==
  <<[s EXCEPT !.content = IF s.kind = "ItemString" THEN SubSeq(s.content, 1, diff) ELSE << >>,
              !.len = IF s.kind = "ItemString" THEN 0 ELSE diff],
    [s EXCEPT !.clock = s.clock + diff,
              !.origin = <<s.client, s.clock + diff - 1>>,
              !.content = IF s.kind = "ItemString"
                          THEN SubSeq(s.content, diff + 1, Len(s.content)) ELSE << >>,
              !.len = IF s.kind = "ItemString" THEN 0 ELSE s.len - diff]>>

\* struct.splitAt(transaction, diff) on structs[index], and the splice of
\* the right half at index + 1 that every caller performs
SplitStructAt(D, client, index, diff) ==
  LET structs == D.clients[client]
      sp == splitAt(At(structs, index), diff)
  IN [D EXCEPT !.clients[client] = Splice(SetAt(structs, index, sp[1]), index + 1, 0, <<sp[2]>>),
               !.ms = Append(@, IdOf(sp[2]))]

\* a faulty getItemCleanStart that never splits
getItemCleanStartNoSplit(D, id) == D

getItemCleanStart(D, id) ==
  LET structs == D.clients[id[1]]
      index == findIndexSS(structs, id[2])
      struct == At(structs, index)
  IN IF struct.clock < id[2] /\ struct.kind # "GC"
     THEN SplitStructAt(D, id[1], index, id[2] - struct.clock)
     ELSE D

\* the struct getItemCleanStart returns (line 219)
getItemCleanStartStruct(D, id) ==
  LET structs == D.clients[id[1]]
      index == findIndexSS(structs, id[2])
      struct == At(structs, index)
  IN IF struct.clock < id[2] /\ struct.kind # "GC"
     THEN splitAt(struct, id[2] - struct.clock)[2]
     ELSE struct

\* a faulty getItemCleanEnd that never splits: convergence depends on the split
getItemCleanEndNoSplit(D, id) == D

\* a faulty getItemCleanEnd that cuts before id.clock instead of after it
getItemCleanEndCutsBefore(D, id) ==
  LET structs == D.clients[id[1]]
      index == findIndexSS(structs, id[2])
      struct == At(structs, index)
  IN IF id[2] # struct.clock /\ struct.kind # "GC"
     THEN SplitStructAt(D, id[1], index, id[2] - struct.clock)
     ELSE D

getItemCleanEnd(D, id) ==
  LET structs == D.clients[id[1]]
      index == findIndexSS(structs, id[2])
      struct == At(structs, index)
  IN IF id[2] # struct.clock + Length(struct) - 1 /\ struct.kind # "GC"
     THEN SplitStructAt(D, id[1], index, id[2] - struct.clock + 1)
     ELSE D

\* the struct getItemCleanEnd returns (line 244): structs[index], which
\* splitAt has cut to its left half
getItemCleanEndStruct(D, id) ==
  LET structs == D.clients[id[1]]
      index == findIndexSS(structs, id[2])
      struct == At(structs, index)
  IN IF id[2] # struct.clock + Length(struct) - 1 /\ struct.kind # "GC"
     THEN splitAt(struct, id[2] - struct.clock + 1)[1]
     ELSE struct

\* a faulty replaceStruct that removes the struct: the state vector depends on
\* the replacement keeping the length
replaceStructRemoves(clients, struct, newStruct) ==
  LET structs == clients[struct.client]
  IN [clients EXCEPT ![struct.client] = Splice(structs, findIndexSS(structs, struct.clock), 1, << >>)]

replaceStruct(clients, struct, newStruct) ==
  LET structs == clients[struct.client]
  IN [clients EXCEPT ![struct.client] = SetAt(structs, findIndexSS(structs, struct.clock), newStruct)]

\* item.delete(transaction) on structs[index]
DeleteStructAt(D, client, index) ==
  LET struct == At(D.clients[client], index)
  IN IF struct.deleted THEN D
     ELSE [D EXCEPT !.clients[client] = SetAt(@, index, [struct EXCEPT !.deleted = TRUE]),
                    !.ds = addToDeleteSet(@, IdOf(struct), Length(struct))]

\* a faulty gc that leaves the struct as it is: the removal of the content
\* of deleted items depends on the replacement
gcItemKeepsContent(clients, struct) == clients

\* item.gc(store, false): the content is dropped, the list cell is kept
gcItem(clients, struct) ==
  replaceStruct(clients, struct,
                ItemDeleted(struct.client, struct.clock, struct.origin,
                            struct.rightOrigin, Length(struct)))

\* mergeItemWith(left, right)
mergeItemWith(ord, left, right) ==
  /\ left.client = right.client
  /\ left.clock + Length(left) = right.clock
  /\ left.deleted = right.deleted
  /\ left.kind = right.kind
  /\ right.origin = LastId(left)
  /\ PosOf(ord, IdOf(right)) = PosOf(ord, LastId(left)) + 1

\* a faulty mergeWith that puts right.string before this.string: the
\* content of the units of a merged struct depends on line 77
mergeWithPrepends(ord, left, right) ==
  IF left.kind = "GC" /\ right.kind = "GC"
  THEN [ok |-> TRUE, left |-> [left EXCEPT !.len = @ + right.len]]
  ELSE IF mergeItemWith(ord, left, right)
       THEN [ok |-> TRUE,
             left |-> [left EXCEPT !.content = IF left.kind = "ItemString"
                                               THEN right.content \o left.content ELSE << >>,
                                   !.len = IF left.kind = "ItemString" THEN 0 ELSE @ + right.len,
                                   !.rightOrigin = right.rightOrigin]]
       ELSE [ok |-> FALSE, left |-> left]

\* left.mergeWith(right): [ok, left]
mergeWith(ord, left, right) ==
  IF left.kind = "GC" /\ right.kind = "GC"
  THEN [ok |-> TRUE, left |-> [left EXCEPT !.len = @ + right.len]]
  ELSE IF mergeItemWith(ord, left, right)
       THEN [ok |-> TRUE,
             left |-> [left EXCEPT !.content = IF left.kind = "ItemString"
                                               THEN left.content \o right.content ELSE << >>,
                                   !.len = IF left.kind = "ItemString" THEN 0 ELSE @ + right.len,
                                   !.rightOrigin = right.rightOrigin]]
       ELSE [ok |-> FALSE, left |-> left]


\* ------------------------------------------------- transaction cleanup
\* a faulty tryToMergeWithLeft that keeps the merged right struct in the array:
\* contiguity depends on the splice
tryToMergeWithLeftNoSplice(ord, structs, pos) ==
  LET left == At(structs, pos - 1)
      right == At(structs, pos)
  IN IF left.deleted = right.deleted /\ left.kind = right.kind
     THEN LET m == mergeWith(ord, left, right)
          IN IF m.ok THEN SetAt(structs, pos - 1, m.left) ELSE structs
     ELSE structs

\* tryToMergeWithLeft(structs, pos) on one client's array
tryToMergeWithLeft(ord, structs, pos) ==
  LET left == At(structs, pos - 1)
      right == At(structs, pos)
  IN IF left.deleted = right.deleted /\ left.kind = right.kind
     THEN LET m == mergeWith(ord, left, right)
          IN IF m.ok THEN Splice(SetAt(structs, pos - 1, m.left), pos, 1, << >>)
             ELSE structs
     ELSE structs

\* gc pass, inner loop over the structs of one delete item
RECURSIVE gcLoop(_, _, _, _)
gcLoop(clients, client, endDeleteItemClock, si) ==
  LET structs == clients[client]
  IN IF si < Len(structs) /\ At(structs, si).clock < endDeleteItemClock
     THEN LET struct == At(structs, si)
          IN gcLoop(IF struct.deleted /\ struct.kind # "GC"
                    THEN gcItem(clients, struct) ELSE clients,
                    client, endDeleteItemClock, si + 1)
     ELSE clients

\* gc pass, loop over the delete items of one client, right to left
RECURSIVE gcDeleteItems(_, _, _, _)
gcDeleteItems(clients, client, deleteItems, di) ==
  IF di >= 0
  THEN LET deleteItem == At(deleteItems, di)
       IN gcDeleteItems(
            gcLoop(clients, client, deleteItem.clock + deleteItem.len,
                   findIndexSS(clients[client], deleteItem.clock)),
            client, deleteItems, di - 1)
  ELSE clients

RECURSIVE gcClients(_, _, _)
gcClients(clients, ds, todo) ==
  IF todo = {} THEN clients
  ELSE LET client == CHOOSE c \in todo : \A d \in todo : c <= d
       IN gcClients(gcDeleteItems(clients, client, ds[client], Len(ds[client]) - 1),
                    ds, todo \ {client})

gcPass(D) ==
  [D EXCEPT !.clients = gcClients(D.clients, D.ds, {c \in Authors : D.ds[c] # << >>})]

\* merge pass over one delete item: si runs from mostRightIndexToCheck down
RECURSIVE mergeDeleteLoop(_, _, _, _)
mergeDeleteLoop(ord, structs, clock, si) ==
  IF si > 0 /\ At(structs, si).clock >= clock
  THEN mergeDeleteLoop(ord, tryToMergeWithLeft(ord, structs, si), clock, si - 1)
  ELSE structs

RECURSIVE mergeDeleteItems(_, _, _, _)
mergeDeleteItems(ord, structs, deleteItems, di) ==
  IF di >= 0
  THEN LET deleteItem == At(deleteItems, di)
           mostRightIndexToCheck ==
             Min2(Len(structs) - 1,
                  1 + findIndexSS(structs, deleteItem.clock + deleteItem.len - 1))
       IN mergeDeleteItems(
            ord, mergeDeleteLoop(ord, structs, deleteItem.clock, mostRightIndexToCheck),
            deleteItems, di - 1)
  ELSE structs

\* merge pass over a client whose state advanced: i runs right to left
RECURSIVE mergeAdvancedLoop(_, _, _, _)
mergeAdvancedLoop(ord, structs, i, firstChangePos) ==
  IF i >= firstChangePos
  THEN mergeAdvancedLoop(ord, tryToMergeWithLeft(ord, structs, i), i - 1, firstChangePos)
  ELSE structs

\* a faulty merge over the advanced clients that merges nothing: the merge of
\* the structs a transaction appended depends on this loop
mergeAdvancedNothing(ord, structs, beforeClock, clock) == structs

mergeAdvanced(ord, structs, beforeClock, clock) ==
  IF beforeClock # clock
  THEN mergeAdvancedLoop(ord, structs, Len(structs) - 1,
                         Max2(findIndexSS(structs, beforeClock), 1))
  ELSE structs

\* merge pass over transaction._mergeStructs, in insertion order
RECURSIVE mergeMergeStructs(_, _, _)
mergeMergeStructs(ord, clients, ms) ==
  IF ms = << >> THEN clients
  ELSE LET mid == Head(ms)
           structs == clients[mid[1]]
           replacedStructPos == findIndexSS(structs, mid[2])
           s1 == IF replacedStructPos + 1 < Len(structs)
                 THEN tryToMergeWithLeft(ord, structs, replacedStructPos + 1)
                 ELSE structs
           s2 == IF replacedStructPos > 0
                 THEN tryToMergeWithLeft(ord, s1, replacedStructPos)
                 ELSE s1
       IN mergeMergeStructs(ord, [clients EXCEPT ![mid[1]] = s2], Tail(ms))

\* a faulty merge pass without the loop over transaction._mergeStructs: merge
\* soundness depends on the halves of a split being looked at again
mergePassNoMergeStructs(D) ==
  LET afterState == D.as
      c1 == [c \in Authors |->
               IF D.ds[c] = << >> THEN D.clients[c]
               ELSE mergeDeleteItems(D.ord, D.clients[c], D.ds[c], Len(D.ds[c]) - 1)]
  IN [D EXCEPT !.clients = [c \in Authors |->
                              IF c1[c] = << >> THEN c1[c]
                              ELSE mergeAdvanced(D.ord, c1[c], D.bs[c], afterState[c])]]

\* the merge pass: over the delete set, the advanced clients, _mergeStructs
mergePass(D) ==
  LET afterState == D.as
      c1 == [c \in Authors |->
               IF D.ds[c] = << >> THEN D.clients[c]
               ELSE mergeDeleteItems(D.ord, D.clients[c], D.ds[c], Len(D.ds[c]) - 1)]
      c2 == [c \in Authors |->
               IF c1[c] = << >> THEN c1[c]
               ELSE mergeAdvanced(D.ord, c1[c], D.bs[c], afterState[c])]
  IN [D EXCEPT !.clients = mergeMergeStructs(D.ord, c2, D.ms)]


\* ------------------------------------------------------------ readDeleteSet
\* the while loop of readDeleteSet over structs[index ..] for one range
RECURSIVE readDeleteLoop(_, _, _, _, _)
readDeleteLoop(D, client, clock, len, index) ==
  LET structs == D.clients[client]
  IN IF index < Len(structs)
     THEN LET struct == At(structs, index)
          IN IF struct.clock < clock + len
             THEN IF ~struct.deleted
                  THEN LET D1 == IF clock + len < struct.clock + Length(struct)
                                 THEN SplitStructAt(D, client, index, clock + len - struct.clock)
                                 ELSE D
                       IN readDeleteLoop(DeleteStructAt(D1, client, index),
                                         client, clock, len, index + 1)
                  ELSE readDeleteLoop(D, client, clock, len, index + 1)
             ELSE D
     ELSE D

\* a faulty readDeleteSet step that drops the ranges it cannot apply:
\* commutativity depends on their being parked
readDeleteItemNoPark(D, unappliedDS, client, state, clock, len) ==
  IF clock < state
  THEN LET structs == D.clients[client]
           index == findIndexSS(structs, clock)
           struct == At(structs, index)
           split == ~struct.deleted /\ struct.clock < clock
           D1 == IF split THEN SplitStructAt(D, client, index, clock - struct.clock) ELSE D
       IN <<readDeleteLoop(D1, client, clock, len, IF split THEN index + 1 ELSE index),
            unappliedDS>>
  ELSE <<D, unappliedDS>>

\* a faulty readDeleteSet step that applies only the ranges that end at or
\* below the state and parks every other range whole: the split of a range
\* at the state depends on the two tests of lines 231-232
readDeleteItemNoSplit(D, unappliedDS, client, state, clock, len) ==
  IF clock + len <= state
  THEN LET structs == D.clients[client]
           index == findIndexSS(structs, clock)
           struct == At(structs, index)
           split == ~struct.deleted /\ struct.clock < clock
           D1 == IF split THEN SplitStructAt(D, client, index, clock - struct.clock) ELSE D
       IN <<readDeleteLoop(D1, client, clock, len, IF split THEN index + 1 ELSE index),
            unappliedDS>>
  ELSE <<D, addToDeleteSet(unappliedDS, <<client, clock>>, len)>>

\* a faulty readDeleteSet step that does not split the first struct at the
\* start of the range: the units of the struct before the range depend on
\* the split of lines 241-244
readDeleteItemWholeFirst(D, unappliedDS, client, state, clock, len) ==
  IF clock < state
  THEN LET u1 == IF state < clock + len
                 THEN addToDeleteSet(unappliedDS, <<client, state>>, clock + len - state)
                 ELSE unappliedDS
       IN <<readDeleteLoop(D, client, clock, len, findIndexSS(D.clients[client], clock)), u1>>
  ELSE <<D, addToDeleteSet(unappliedDS, <<client, clock>>, len)>>

\* one (clock, len) of a client whose state was `state` when its section began:
\* <<D, unappliedDS>>
readDeleteItem(D, unappliedDS, client, state, clock, len) ==
  IF clock < state
  THEN LET u1 == IF state < clock + len
                 THEN addToDeleteSet(unappliedDS, <<client, state>>, clock + len - state)
                 ELSE unappliedDS
           structs == D.clients[client]
           index == findIndexSS(structs, clock)
           struct == At(structs, index)
           split == ~struct.deleted /\ struct.clock < clock
           D1 == IF split THEN SplitStructAt(D, client, index, clock - struct.clock) ELSE D
       IN <<readDeleteLoop(D1, client, clock, len, IF split THEN index + 1 ELSE index), u1>>
  ELSE <<D, addToDeleteSet(unappliedDS, <<client, clock>>, len)>>

RECURSIVE readDeleteItems(_, _, _, _, _)
readDeleteItems(D, unappliedDS, client, state, dels) ==
  IF dels = << >> THEN <<D, unappliedDS>>
  ELSE LET r == readDeleteItem(D, unappliedDS, client, state, Head(dels).clock, Head(dels).len)
       IN readDeleteItems(r[1], r[2], client, state, Tail(dels))

RECURSIVE readDeleteClients(_, _, _, _)
readDeleteClients(D, unappliedDS, reader, todo) ==
  IF todo = {} THEN <<D, unappliedDS>>
  ELSE LET client == CHOOSE c \in todo : \A d \in todo : c <= d
           r == readDeleteItems(D, unappliedDS, client, getState(D.clients, client),
                                reader[client])
       IN readDeleteClients(r[1], r[2], reader, todo \ {client})

\* a faulty readDeleteSet that does not push the unapplied ranges onto
\* pendingDeleteReaders: a delete that arrives before its insert depends on it
readDeleteSetForgetsUnapplied(D, reader) ==
  readDeleteClients(D, EmptyDS, reader, {c \in Authors : reader[c] # << >>})[1]

\* readDeleteSet(decoder, transaction, store); the decoder holds the delete set `reader`
readDeleteSet(D, reader) ==
  LET r == readDeleteClients(D, EmptyDS, reader, {c \in Authors : reader[c] # << >>})
  IN IF \E c \in Authors : r[2][c] # << >>
     THEN [r[1] EXCEPT !.pdr = Append(@, r[2])]
     ELSE r[1]


\* --------------------------------------------------- integration of items
StructAtUnit(clients, id) == At(clients[id[1]], findIndexSS(clients[id[1]], id[2]))
UnitDeleted(clients, id) == StructAtUnit(clients, id).deleted
Units(s) == [k \in 1 .. Length(s) |-> <<s.client, s.clock + k - 1>>]

\* the walk over the concurrent candidates between left and right (YATA):
\* o is the position of the candidate C in the sequence, p the position where
\* the walk began (the items from p to o are the items before C), q the
\* position of right, ins the position chosen so far (the items from ins to o
\* are the conflicting items)
RECURSIVE conflictScan(_, _, _, _, _, _)
conflictScan(D, n, p, o, q, ins) ==
  IF o > Len(D.ord) \/ o = q THEN ins
  ELSE LET C == StructAtUnit(D.clients, D.ord[o])
           next == PosOf(D.ord, LastId(C)) + 1
           co == PosOf(D.ord, C.origin)
       IN IF C.origin = n.origin
          THEN conflictScan(D, n, p, next, q, IF C.client < n.client THEN next ELSE ins)
          ELSE IF C.origin # NoID /\ co >= p
               THEN conflictScan(D, n, p, next, q, IF co < ins THEN next ELSE ins)
               ELSE ins

\* a faulty integrate that puts the item right after its origin without the
\* scan of the conflicting items: the order of concurrent inserts depends on
\* the scan
integrateNoScan(D, n) ==
  LET D1 == IF n.origin # NoID THEN getItemCleanEnd(D, n.origin) ELSE D
      D2 == IF n.rightOrigin # NoID THEN getItemCleanStart(D1, n.rightOrigin) ELSE D1
      p == PosOf(D2.ord, n.origin) + 1
  IN [D2 EXCEPT !.ord = Splice(@, p - 1, 0, Units(n)),
                !.clients = addStruct(D2.clients, n).clients]

\* item.integrate(transaction) for an item whose origins are in the store
integrate(D, n) ==
  LET D1 == IF n.origin # NoID THEN getItemCleanEnd(D, n.origin) ELSE D
      D2 == IF n.rightOrigin # NoID THEN getItemCleanStart(D1, n.rightOrigin) ELSE D1
      p == PosOf(D2.ord, n.origin) + 1
      q == IF n.rightOrigin = NoID THEN Len(D2.ord) + 1 ELSE PosOf(D2.ord, n.rightOrigin)
      ins == conflictScan(D2, n, p, p, q, p)
  IN [D2 EXCEPT !.ord = Splice(@, ins - 1, 0, Units(n)),
                !.clients = addStruct(D2.clients, n).clients]

\* ------------------------------------------------------------- local edits
VisibleUnits(D) == SelectSeq(D.ord, LAMBDA u : ~UnitDeleted(D.clients, u))

\* YArray.insert(index, content) with `len` new units, by `client`
typeListInsertGenerics(D, client, index, len) ==
  LET vis == VisibleUnits(D)
      left == IF index = 0 THEN NoID ELSE vis[index]
      D1 == IF left # NoID /\ left # LastId(StructAtUnit(D.clients, left))
            THEN getItemCleanStart(D, <<left[1], left[2] + 1>>)
            ELSE D
      lp == PosOf(D1.ord, left)
      right == IF lp < Len(D1.ord) THEN D1.ord[lp + 1] ELSE NoID
      clock == getState(D1.clients, client)
      string == [k \in 1 .. len |-> CharOf(client, clock + k - 1)]
  IN integrate(D1, ItemString(client, clock, left, right, string))

\* the walk of typeListDelete from position pos of the sequence
RECURSIVE typeListDeleteWalk(_, _, _)
typeListDeleteWalk(D, pos, length) ==
  IF length <= 0 \/ pos > Len(D.ord) THEN D
  ELSE LET u == D.ord[pos]
           s == StructAtUnit(D.clients, u)
       IN IF s.deleted
          THEN typeListDeleteWalk(D, PosOf(D.ord, LastId(s)) + 1, length)
          ELSE LET D1 == IF length < Length(s)
                         THEN getItemCleanStart(D, <<s.client, s.clock + length>>)
                         ELSE D
                   s1 == StructAtUnit(D1.clients, u)
                   D2 == DeleteStructAt(D1, s1.client, findIndexSS(D1.clients[s1.client], s1.clock))
               IN typeListDeleteWalk(D2, PosOf(D2.ord, LastId(s1)) + 1, length - Length(s1))

\* YArray.delete(index, length)
typeListDelete(D, index, length) ==
  LET u == VisibleUnits(D)[index + 1]
      D1 == getItemCleanStart(D, u)
  IN typeListDeleteWalk(D1, PosOf(D1.ord, u), length)

\* ------------------------------------------------------------ update codec
NoMsg == [structs |-> [c \in Authors |-> << >>], ds |-> EmptyDS]

\* a struct written with an offset: the ref starts at clock + offset
WithOffset(s, offset) ==
  IF offset <= 0 THEN s ELSE splitAt(s, offset)[2]

\* writeStructsFromTransaction: the structs in [beforeState, afterState)
writeStructs(clients, bs, as) ==
  [c \in Authors |->
     IF as[c] > bs[c]
     THEN LET structs == clients[c]
              first == findIndexSS(structs, bs[c])
          IN [k \in 1 .. Len(structs) - first |->
                IF k = 1 THEN WithOffset(At(structs, first), bs[c] - At(structs, first).clock)
                ELSE At(structs, first + k - 1)]
     ELSE << >>]

\* a faulty computeUpdateMessageFromTransaction without the test of line
\* 99, which writes the structs from clock 0: the end of the echo between
\* two wired documents depends on the null of an unchanged transaction
computeUpdateWholeStore(D) ==
  [structs |-> writeStructs(D.clients, [c \in Authors |-> 0], getStateVector(D.clients)),
   ds |-> sortAndMergeDeleteSet(D.ds)]

\* a faulty computeUpdateMessageFromTransaction that looks at the states
\* only: the update of a transaction that only deletes depends on the test
\* of the delete set
computeUpdateStateOnly(D) ==
  IF ~(\E c \in Authors : D.bs[c] # D.as[c])
  THEN NoMsg
  ELSE [structs |-> writeStructs(D.clients, D.bs, D.as),
        ds |-> sortAndMergeDeleteSet(D.ds)]

computeUpdateMessageFromTransaction(D) ==
  IF (\A c \in Authors : D.ds[c] = << >>) /\ ~(\E c \in Authors : D.bs[c] # D.as[c])
  THEN NoMsg
  ELSE [structs |-> writeStructs(D.clients, D.bs, D.as),
        ds |-> sortAndMergeDeleteSet(D.ds)]

Known(clients, id) == id = NoID \/ id[2] < getState(clients, id[1])

\* a faulty Resumable that does not wait for the structs below the ref: a ref
\* above the state of its client is integrated as it arrives
ResumableAboveState(D, ref) ==
  LET state == getState(D.clients, ref.client)
  IN \/ ref.clock + Length(ref) <= state
     \/ /\ ref.clock < state \/ Known(D.clients, ref.origin)
        /\ Known(D.clients, ref.rightOrigin)

\* a pending ref that can be consumed now: it is already known (a duplicate),
\* or it starts at or below the state and its origins are in the store
Resumable(D, ref) ==
  LET state == getState(D.clients, ref.client)
  IN /\ ref.clock <= state
     /\ \/ ref.clock + Length(ref) <= state
        \/ /\ ref.clock < state \/ Known(D.clients, ref.origin)
           /\ Known(D.clients, ref.rightOrigin)

\* tryResumePendingStructRefs
RECURSIVE tryResumePendingStructRefs(_)
tryResumePendingStructRefs(D) ==
  LET ready == {ref \in D.pend : Resumable(D, ref)}
  IN IF ready = {} THEN D
     ELSE LET ref == CHOOSE x \in ready :
                       \A y \in ready : x.client < y.client
                                        \/ (x.client = y.client /\ x.clock <= y.clock)
              state == getState(D.clients, ref.client)
              D1 == [D EXCEPT !.pend = @ \ {ref}]
          IN IF ref.clock + Length(ref) <= state
             THEN tryResumePendingStructRefs(D1)
             ELSE tryResumePendingStructRefs(
                    integrate(D1, WithOffset(ref, state - ref.clock)))

readStructs(D, structs) ==
  tryResumePendingStructRefs(
    [D EXCEPT !.pend = @ \cup UNION {{structs[c][k] : k \in 1 .. Len(structs[c])} : c \in Authors}])

RECURSIVE readPendingDeleteReaders(_, _)
readPendingDeleteReaders(D, readers) ==
  IF readers = << >> THEN D
  ELSE readPendingDeleteReaders(readDeleteSet(D, Head(readers)), Tail(readers))

\* a faulty tryResumePendingDeleteReaders that leaves the parked delete sets
\* where they are: the deletes that arrived before their structs depend on
\* their being read again
tryResumeNothing(D) == D

tryResumePendingDeleteReaders(D) ==
  readPendingDeleteReaders([D EXCEPT !.pdr = << >>], D.pdr)

\* readModel: the structs, then the parked delete sets, then the delete set
readModel(D, msg) ==
  readDeleteSet(tryResumePendingDeleteReaders(readStructs(D, msg.structs)), msg.ds)

\* readDeleteSet on a decoder that ends inside the section of `client`, after
\* n of its ranges: the ranges read so far are applied as they are read, the
\* next read fails and the exception leaves the function before line 265
readDeleteSetTruncated(D, reader, client, n) ==
  LET before == {c \in Authors : reader[c] # << >> /\ c < client}
      r1 == readDeleteClients(D, EmptyDS, reader, before)
      r2 == readDeleteItems(r1[1], r1[2], client, getState(r1[1].clients, client),
                            SubSeq(reader[client], 1, n))
  IN r2[1]

\* ------------------------------------------------------------ transactions
\* new Transaction(doc, origin)
openTransaction(D) ==
  [D EXCEPT !.ds = EmptyDS, !.ms = << >>, !.bs = getStateVector(D.clients),
            !.as = [c \in Authors |-> 0]]

\* the head of the cleanup: sortAndMergeDeleteSet(ds), afterState
beginCleanup(D) ==
  [D EXCEPT !.ds = sortAndMergeDeleteSet(D.ds), !.as = getStateVector(D.clients)]

\* a whole transaction around body result D: cleanup through the merge pass
cleanupTransaction(D) == mergePass(gcPass(beginCleanup(D)))

\* Y.applyUpdate(doc, msg) run to the end of its transaction
applyUpdate(D, msg) == cleanupTransaction(readModel(openTransaction(D), msg))


\* Y.applyUpdate(doc, msg) of an update whose delete set is cut off: the
\* exception ends the body, the finally block of transact runs the cleanup
applyUpdateTruncated(D, msg, client, n) ==
  cleanupTransaction(
    readDeleteSetTruncated(
      tryResumePendingDeleteReaders(readStructs(openTransaction(D), msg.structs)),
      msg.ds, client, n))

\* the transaction object is dropped when transact returns
closeTransaction(D) ==
  [D EXCEPT !.ds = EmptyDS, !.ms = << >>, !.bs = [c \in Authors |-> 0],
            !.as = [c \in Authors |-> 0]]

\* ================================================================ replicas
(* The replicas edit a shared array and emit an update message at the  *)
(* end of each local transaction; every replica applies any emitted        *)
(* message at any time, in any order, any number of times.  One document   *)
(* runs a transaction at a time (the engine is single-threaded and the     *)
(* documents share nothing); `cur` is that document, `pc` the step of its  *)
(* cleanup, `local` whether the transaction is a local edit.               *)
VARIABLES txn, cleanups, stack, unwinding, changed, nTx, nCalls, nThrows,
          obsCalls, deepCalls, updCalls, started, done, openedIn, threwRet

varsT == <<txn, cleanups, stack, unwinding, changed, nTx, nCalls, nThrows,
           obsCalls, deepCalls, updCalls, started, done, openedIn, threwRet>>

\* the delete set of the calls of addToDeleteSet, the result of
\* sortAndMergeDeleteSet on it, and whether it was called
\* transaction.origin of each transaction, the origin emitted with its
\* update, and the mutations with the call that made them
VARIABLES txOrigin, updOrigin, reported, steps

varsO == <<txOrigin, updOrigin, reported, steps>>

\* the struct array of one client, and the call made on it with its result
VARIABLES sstructs, scall

varsS == <<sstructs, scall>>

\* deep observers (see the section "deep observers" below)
VARIABLES hdeleted, hchanged, hparents, htxn, hcreated, hcur, hpc, hk, hcalls

varsD == <<hdeleted, hchanged, hparents, htxn, hcreated, hcur, hpc, hk, hcalls>>

\* map entries (see the section "map entries" below)
VARIABLES kstructs, kmap, kds, kbefore, kpc, kops

varsK == <<kstructs, kmap, kds, kbefore, kpc, kops>>

\* two wired documents (see the section "wired documents" below)
VARIABLES wdocs, wflight, wknown, wevents, wops

varsW == <<wdocs, wflight, wknown, wevents, wops>>

VARIABLES uds, usorted, upc

varsU == <<uds, usorted, upc>>

\* a document with or without an 'update' listener, a peer whose update
\* messages it applies, and the outcome of its last transaction
VARIABLES edoc, epeer, emsgs, eseen, listening, updateEvent, nEmitTx

varsE == <<edoc, epeer, emsgs, eseen, listening, updateEvent, nEmitTx>>

VARIABLES docs, msgs, seen, cur, pc, local, nOps, nDeliv

varsR == <<docs, msgs, seen, cur, pc, local, nOps, nDeliv>>

InitR ==
  /\ docs = [r \in Replicas |-> EmptyDoc]
  /\ msgs = {}
  /\ seen = [r \in Replicas |-> {}]
  /\ cur = 0
  /\ pc = "idle"
  /\ local = FALSE
  /\ nOps = 0
  /\ nDeliv = 0

\* yarray.insert(index, content): transact body, then the head of the cleanup
LocalInsert(r, index, len) ==
  /\ cur = 0
  /\ UNCHANGED <<varsT, varsU, varsE, varsO, varsS, varsD, varsK, varsW>>
  /\ nOps < MaxOps
  /\ index <= Len(VisibleUnits(docs[r]))
  /\ docs' = [docs EXCEPT ![r] =
                beginCleanup(typeListInsertGenerics(openTransaction(@), r, index, len))]
  /\ cur' = r
  /\ pc' = "gc"
  /\ local' = TRUE
  /\ nOps' = nOps + 1
  /\ UNCHANGED <<msgs, seen, nDeliv>>

\* yarray.delete(index, length)
LocalDelete(r, index, length) ==
  /\ cur = 0
  /\ UNCHANGED <<varsT, varsU, varsE, varsO, varsS, varsD, varsK, varsW>>
  /\ nOps < MaxOps
  /\ index + length <= Len(VisibleUnits(docs[r]))
  /\ docs' = [docs EXCEPT ![r] =
                beginCleanup(typeListDelete(openTransaction(@), index, length))]
  /\ cur' = r
  /\ pc' = "gc"
  /\ local' = TRUE
  /\ nOps' = nOps + 1
  /\ UNCHANGED <<msgs, seen, nDeliv>>

\* Y.applyUpdate(doc, m): transact body readModel, then the head of the cleanup
ApplyUpdate(r, m) ==
  /\ cur = 0
  /\ UNCHANGED <<varsT, varsU, varsE, varsO, varsS, varsD, varsK, varsW>>
  /\ nDeliv < MaxDeliver
  /\ docs' = [docs EXCEPT ![r] = beginCleanup(readModel(openTransaction(@), m))]
  /\ seen' = [seen EXCEPT ![r] = @ \cup {m}]
  /\ cur' = r
  /\ pc' = "gc"
  /\ local' = FALSE
  /\ nDeliv' = nDeliv + 1
  /\ UNCHANGED <<msgs, nOps>>

\* transact, after the observer calls: replace deleted items
GcPass ==
  /\ cur # 0
  /\ UNCHANGED <<varsT, varsU, varsE, varsO, varsS, varsD, varsK, varsW>>
  /\ pc = "gc"
  /\ docs' = [docs EXCEPT ![cur] = gcPass(@)]
  /\ pc' = "merge"
  /\ UNCHANGED <<msgs, seen, cur, local, nOps, nDeliv>>

\* transact: the merge pass, then the update event; a local edit's update
\* message goes to the network
MergePass ==
  /\ cur # 0
  /\ UNCHANGED <<varsT, varsU, varsE, varsO, varsS, varsD, varsK, varsW>>
  /\ pc = "merge"
  /\ LET D == mergePass(docs[cur])
         m == computeUpdateMessageFromTransaction(D)
     IN /\ docs' = [docs EXCEPT ![cur] = closeTransaction(D)]
        /\ IF local /\ m # NoMsg
           THEN /\ msgs' = msgs \cup {m}
                /\ seen' = [seen EXCEPT ![cur] = @ \cup {m}]
           ELSE UNCHANGED <<msgs, seen>>
  /\ cur' = 0
  /\ pc' = "idle"
  /\ UNCHANGED <<local, nOps, nDeliv>>

NextR ==
  \/ \E r \in Authors : \E index \in 0 .. MaxOps * MaxInsertLen :
       \E len \in 1 .. MaxInsertLen : LocalInsert(r, index, len)
  \/ \E r \in Authors : \E index \in 0 .. MaxOps * MaxInsertLen :
       \E length \in 1 .. MaxInsertLen : LocalDelete(r, index, length)
  \/ \E r \in Replicas : \E m \in msgs : ApplyUpdate(r, m)
  \/ GcPass
  \/ MergePass

\* ================================================================ transact
(* The control flow of transact(doc, f, origin) on one document.  `stack`  *)
(* is the JavaScript call stack: a frame of kind "transact" is a running   *)
(* call of transact (pc "body": f runs; the other pcs: the cleanup loop in *)
(* the finally block), a frame of kind "observer", "deep" or "update" is a *)
(* user callback called by the cleanup loop.  User code (a body or a       *)
(* callback) may mutate a type (bodies only), call transact, return or     *)
(* throw; it does not catch.  `unwinding` is an exception in flight.       *)
(*   txn        doc._transaction (0 is null)                               *)
(*   cleanups   doc._transactionCleanups (transactions are numbered in the *)
(*              order of their creation)                                   *)
(*   changed    transaction.changed: the changed types, in insertion order *)
(* History kept for the properties: obsCalls, deepCalls, updCalls count    *)
(* the callbacks delivered per transaction; started / done are the         *)
(* transactions whose cleanup iteration began / ran to its end; openedIn   *)
(* tells, for a transaction created by a callback, the transaction whose   *)
(* cleanup was running and the callback; threwRet records, for each        *)
(* creating call whose body threw, whether the cleanup of its transaction  *)
(* had run when the call ended.                                            *)
MaxTx == 2       \* transactions created
MaxCalls == 3    \* calls of transact
MaxThrows == 1   \* exceptions thrown by user code

Types == {"X", "Y"}            \* the shared types of the document
ShallowObserved == {"X", "Y"}  \* types with an observe() handler
DeepObserved == {"X"}          \* types with an observeDeep() handler
TxIds == 1 .. MaxTx

NotOpenedIn == [tx |-> 0, kind |-> "-", type |-> "-"]

InitT ==
  /\ txn = 0
  /\ cleanups = << >>
  /\ stack = << >>
  /\ unwinding = FALSE
  /\ changed = [t \in TxIds |-> << >>]
  /\ nTx = 0
  /\ nCalls = 0
  /\ nThrows = 0
  /\ obsCalls = [t \in TxIds |-> [y \in Types |-> 0]]
  /\ deepCalls = [t \in TxIds |-> [y \in Types |-> 0]]
  /\ updCalls = [t \in TxIds |-> 0]
  /\ started = {}
  /\ done = {}
  /\ openedIn = [t \in TxIds |-> NotOpenedIn]
  /\ threwRet = {}
  /\ txOrigin = [t \in TxIds |-> 0]
  /\ updOrigin = [t \in TxIds |-> 0]
  /\ reported = {}
  /\ steps = [t \in TxIds |-> << >>]

\* origin: the origin argument of a call of transact; the k-th call of
\* transact passes the origin k, so that no two calls pass the same
Frame(kind, tx, initial, fpc, type, seenTxn) ==
  [kind |-> kind, tx |-> tx, initial |-> initial, pc |-> fpc, i |-> 0, k |-> 0,
   exc |-> FALSE, type |-> type, seenTxn |-> seenTxn, origin |-> 0]

\* a faulty emission that passes no origin to the update listeners
updateOriginNull(origins, t) == 0

\* line 276: the origin emitted with the update of transaction t
updateOrigin(origins, t) == origins[t]

\* a faulty cleanup that replaces and merges the structs before the
\* afterTransaction listeners have seen them
cleanupStepsGcFirst(emitsUpdate) ==
  <<"gc", "merge", "afterTransaction", "afterTransactionCleanup">>
    \o (IF emitsUpdate THEN <<"update">> ELSE << >>)

\* lines 171-278: the steps of one cleanup iteration after the observers:
\* afterTransaction (171), the gc pass (189-213), the merge pass (214-269),
\* afterTransactionCleanup (271), the update event (272-278)
cleanupSteps(emitsUpdate) ==
  <<"afterTransaction", "gc", "merge", "afterTransactionCleanup">>
    \o (IF emitsUpdate THEN <<"update">> ELSE << >>)

\* the document-level step `step` of transaction t has begun
Occurs(log, t, step) == [log EXCEPT ![t] = Append(@, step)]

Top == stack[Len(stack)]
Pop == SubSeq(stack, 1, Len(stack) - 1)
SetTop(f) == [stack EXCEPT ![Len(stack)] = f]
InSeq(x, s) == \E j \in 1 .. Len(s) : s[j] = x

\* user code is running: the caller of the document, a body, or a callback
UserCode ==
  /\ ~unwinding
  /\ IF stack = << >> THEN TRUE
     ELSE IF Top.kind = "transact" THEN Top.pc = "body" ELSE TRUE

InBody == stack # << >> /\ ~unwinding /\ Top.kind = "transact" /\ Top.pc = "body"
InCallback == stack # << >> /\ ~unwinding /\ Top.kind # "transact"
InLoop(fpc) == stack # << >> /\ ~unwinding /\ Top.kind = "transact" /\ Top.pc = fpc

\* the transaction whose cleanup iteration is running, 0 if none
CleaningNow ==
  LET idx == {j \in 1 .. Len(stack) :
                stack[j].kind = "transact" /\ stack[j].pc \in {"observers", "deep", "passes", "end"}}
  IN IF idx = {} THEN 0
     ELSE LET j == CHOOSE x \in idx : \A y \in idx : x >= y
          IN cleanups[stack[j].i + 1]

\* transact, line 133: if (doc._transaction === null)
\* the call of transact up to the call of f
CallTransact ==
  /\ UserCode
  /\ UNCHANGED <<varsR, varsU, varsE, varsS, varsD, varsK, varsW>>
  /\ UNCHANGED <<updOrigin, reported>>
  /\ nCalls < MaxCalls
  /\ nCalls' = nCalls + 1
  /\ IF txn = 0
     THEN /\ nTx < MaxTx
          /\ nTx' = nTx + 1
          /\ txn' = nTx + 1
          /\ cleanups' = Append(cleanups, nTx + 1)
          /\ openedIn' = [openedIn EXCEPT ![nTx + 1] =
                             IF stack = << >> THEN NotOpenedIn
                             ELSE [tx |-> CleaningNow, kind |-> Top.kind, type |-> Top.type]]
          /\ txOrigin' = [txOrigin EXCEPT ![nTx + 1] = nCalls + 1]
          /\ steps' = [steps EXCEPT ![nTx + 1] = <<"beforeTransaction", "body">>]
          /\ stack' = Append(stack, [Frame("transact", nTx + 1, TRUE, "body", "-", 0)
                                       EXCEPT !.origin = nCalls + 1])
     ELSE /\ stack' = Append(stack, [Frame("transact", txn, FALSE, "body", "-", 0)
                                       EXCEPT !.origin = nCalls + 1])
          /\ UNCHANGED <<nTx, txn, cleanups, openedIn, txOrigin, steps>>
  /\ UNCHANGED <<unwinding, changed, nThrows, obsCalls, deepCalls, updCalls,
                 started, done, threwRet>>

\* the body changes a shared type: the type enters transaction.changed of
\* doc._transaction
Mutate(y) ==
  /\ InBody
  /\ UNCHANGED <<varsR, varsU, varsE, varsS, varsD, varsK, varsW>>
  /\ reported' = reported \cup {[type |-> y, tx |-> txn, call |-> Top.origin,
                                  initial |-> Top.initial]}
  /\ UNCHANGED <<txOrigin, updOrigin, steps>>
  /\ ~InSeq(y, changed[txn])
  /\ changed' = [changed EXCEPT ![txn] = Append(@, y)]
  /\ UNCHANGED <<txn, cleanups, stack, unwinding, nTx, nCalls, nThrows, obsCalls,
                 deepCalls, updCalls, started, done, openedIn, threwRet>>

\* a faulty condition without the test of the head of the queue: the queueing
\* of the transactions of callbacks depends on it
runsCleanupAnyInitialCall(initialCall, transactionCleanups, transaction) ==
  initialCall

\* the condition of the finally block, line 142
runsCleanup(initialCall, transactionCleanups, transaction) ==
  initialCall /\ transactionCleanups # << >> /\ At(transactionCleanups, 0) = transaction

\* a faulty loop condition that stops after the head: the delivery for the
\* transactions of callbacks depends on the loop reading the queue's length
loopOnlyFirst(i, transactionCleanups) == i < 1

\* the condition of the loop over the cleanup queue, line 146
loopContinues(i, transactionCleanups) == i < Len(transactionCleanups)

\* f has ended (thrown = it threw): the finally block begins.  The frame
\* enters the cleanup loop or the call ends.
EndBody(thrown) ==
  IF runsCleanup(Top.initial, cleanups, txn)
  THEN /\ stack' = SetTop([Top EXCEPT !.pc = "iter", !.i = 0, !.exc = thrown])
       /\ unwinding' = FALSE
       /\ UNCHANGED threwRet
  ELSE /\ stack' = Pop
       /\ unwinding' = thrown
       /\ threwRet' = IF thrown /\ Top.initial
                      THEN threwRet \cup {[tx |-> Top.tx, cleaned |-> Top.tx \in done]}
                      ELSE threwRet

ReturnBody ==
  /\ InBody
  /\ UNCHANGED <<varsR, varsU, varsE, varsS, varsD, varsK, varsW>>
  /\ UNCHANGED varsO
  /\ EndBody(FALSE)
  /\ UNCHANGED <<txn, cleanups, changed, nTx, nCalls, nThrows, obsCalls, deepCalls,
                 updCalls, started, done, openedIn>>

ThrowBody ==
  /\ InBody
  /\ UNCHANGED <<varsR, varsU, varsE, varsS, varsD, varsK, varsW>>
  /\ UNCHANGED varsO
  /\ nThrows < MaxThrows
  /\ nThrows' = nThrows + 1
  /\ EndBody(TRUE)
  /\ UNCHANGED <<txn, cleanups, changed, nTx, nCalls, obsCalls, deepCalls,
                 updCalls, started, done, openedIn>>

\* lines 146-153: the head of one iteration of the cleanup loop, or its end
\* (line 280) followed by the return of transact
LoopIter ==
  /\ InLoop("iter")
  /\ UNCHANGED <<varsR, varsU, varsE, varsS, varsD, varsK, varsW>>
  /\ UNCHANGED <<txOrigin, updOrigin, reported>>
  /\ steps' = IF loopContinues(Top.i, cleanups)
              THEN Occurs(steps, At(cleanups, Top.i), "beforeObserverCalls")
              ELSE steps
  /\ IF loopContinues(Top.i, cleanups)
     THEN /\ txn' = 0
          /\ started' = started \cup {At(cleanups, Top.i)}
          /\ stack' = SetTop([Top EXCEPT !.pc = "observers", !.k = 0])
          /\ UNCHANGED <<cleanups, unwinding, threwRet>>
     ELSE /\ cleanups' = << >>
          /\ stack' = Pop
          /\ unwinding' = Top.exc
          /\ threwRet' = IF Top.exc
                         THEN threwRet \cup {[tx |-> Top.tx, cleaned |-> Top.tx \in done]}
                         ELSE threwRet
          /\ UNCHANGED <<txn, started>>
  /\ UNCHANGED <<changed, nTx, nCalls, nThrows, obsCalls, deepCalls, updCalls,
                 done, openedIn>>

\* lines 155-157: transaction.changed.forEach: itemtype._callObserver
CallObservers ==
  /\ InLoop("observers")
  /\ UNCHANGED <<varsR, varsU, varsE, varsS, varsD, varsK, varsW>>
  /\ UNCHANGED <<txOrigin, updOrigin, reported>>
  /\ steps' = IF Top.k = 0 THEN Occurs(steps, At(cleanups, Top.i), "observers") ELSE steps
  /\ LET t == At(cleanups, Top.i)
     IN IF Top.k < Len(changed[t])
        THEN LET y == At(changed[t], Top.k)
             IN IF y \in ShallowObserved
                THEN /\ stack' = Append(SetTop([Top EXCEPT !.k = @ + 1]),
                                        Frame("observer", t, FALSE, "run", y, txn))
                     /\ obsCalls' = [obsCalls EXCEPT ![t][y] = @ + 1]
                ELSE /\ stack' = SetTop([Top EXCEPT !.k = @ + 1])
                     /\ UNCHANGED obsCalls
        ELSE /\ stack' = SetTop([Top EXCEPT !.pc = "deep", !.k = 0])
             /\ UNCHANGED obsCalls
  /\ UNCHANGED <<txn, cleanups, unwinding, changed, nTx, nCalls, nThrows, deepCalls,
                 updCalls, started, done, openedIn, threwRet>>

\* lines 158-170: transaction.changedParentTypes.forEach: the deep handlers
CallDeepObservers ==
  /\ InLoop("deep")
  /\ UNCHANGED <<varsR, varsU, varsE, varsS, varsD, varsK, varsW>>
  /\ UNCHANGED <<txOrigin, updOrigin, reported>>
  /\ steps' = IF Top.k = 0 THEN Occurs(steps, At(cleanups, Top.i), "deep") ELSE steps
  /\ LET t == At(cleanups, Top.i)
     IN IF Top.k < Len(changed[t])
        THEN LET y == At(changed[t], Top.k)
             IN IF y \in DeepObserved
                THEN /\ stack' = Append(SetTop([Top EXCEPT !.k = @ + 1]),
                                        Frame("deep", t, FALSE, "run", y, txn))
                     /\ deepCalls' = [deepCalls EXCEPT ![t][y] = @ + 1]
                ELSE /\ stack' = SetTop([Top EXCEPT !.k = @ + 1])
                     /\ UNCHANGED deepCalls
        ELSE /\ stack' = SetTop([Top EXCEPT !.pc = "passes", !.k = 0])
             /\ UNCHANGED deepCalls
  /\ UNCHANGED <<txn, cleanups, unwinding, changed, nTx, nCalls, nThrows, obsCalls,
                 updCalls, started, done, openedIn, threwRet>>

\* lines 171-278: afterTransaction, the gc pass, the merge pass,
\* afterTransactionCleanup, and the update event of a transaction that
\* changed something
CleanupPasses ==
  /\ InLoop("passes")
  /\ UNCHANGED <<varsR, varsU, varsE, varsS, varsD, varsK, varsW>>
  /\ UNCHANGED <<txOrigin, reported>>
  /\ LET t == At(cleanups, Top.i)
     IN steps' = [steps EXCEPT ![t] = @ \o cleanupSteps(changed[t] # << >>)]
  /\ LET t == At(cleanups, Top.i)
     IN IF changed[t] # << >>
        THEN /\ stack' = Append(SetTop([Top EXCEPT !.pc = "end"]),
                                Frame("update", t, FALSE, "run", "-", txn))
             /\ updCalls' = [updCalls EXCEPT ![t] = @ + 1]
             /\ updOrigin' = [updOrigin EXCEPT ![t] = updateOrigin(txOrigin, t)]
        ELSE /\ stack' = SetTop([Top EXCEPT !.pc = "end"])
             /\ UNCHANGED <<updCalls, updOrigin>>
  /\ UNCHANGED <<txn, cleanups, unwinding, changed, nTx, nCalls, nThrows, obsCalls,
                 deepCalls, started, done, openedIn, threwRet>>

\* line 146: i++
LoopEnd ==
  /\ InLoop("end")
  /\ UNCHANGED <<varsR, varsU, varsE, varsS, varsD, varsK, varsW>>
  /\ UNCHANGED varsO
  /\ done' = done \cup {At(cleanups, Top.i)}
  /\ stack' = SetTop([Top EXCEPT !.pc = "iter", !.i = @ + 1])
  /\ UNCHANGED <<txn, cleanups, unwinding, changed, nTx, nCalls, nThrows, obsCalls,
                 deepCalls, updCalls, started, openedIn, threwRet>>

\* a callback returns
ReturnCallback ==
  /\ InCallback
  /\ UNCHANGED <<varsR, varsU, varsE, varsS, varsD, varsK, varsW>>
  /\ UNCHANGED varsO
  /\ stack' = Pop
  /\ UNCHANGED <<txn, cleanups, unwinding, changed, nTx, nCalls, nThrows, obsCalls,
                 deepCalls, updCalls, started, done, openedIn, threwRet>>

\* a callback throws
ThrowCallback ==
  /\ InCallback
  /\ UNCHANGED <<varsR, varsU, varsE, varsS, varsD, varsK, varsW>>
  /\ UNCHANGED varsO
  /\ nThrows < MaxThrows
  /\ nThrows' = nThrows + 1
  /\ stack' = Pop
  /\ unwinding' = TRUE
  /\ UNCHANGED <<txn, cleanups, changed, nTx, nCalls, obsCalls, deepCalls, updCalls,
                 started, done, openedIn, threwRet>>

\* an exception in flight reaches the next frame: a body ends by it (its
\* finally block runs); a cleanup loop or a callback is left by it; the
\* caller of the document receives it
Unwind ==
  /\ unwinding
  /\ UNCHANGED <<varsR, varsU, varsE, varsS, varsD, varsK, varsW>>
  /\ UNCHANGED varsO
  /\ IF stack = << >>
     THEN /\ unwinding' = FALSE
          /\ UNCHANGED <<stack, threwRet>>
     ELSE IF Top.kind = "transact" /\ Top.pc = "body"
          THEN EndBody(TRUE)
          ELSE /\ stack' = Pop
               /\ UNCHANGED <<unwinding, threwRet>>
  /\ UNCHANGED <<txn, cleanups, changed, nTx, nCalls, nThrows, obsCalls, deepCalls,
                 updCalls, started, done, openedIn>>

\* user code catches the exception of the call of transact it made
Catch ==
  /\ UNCHANGED <<varsR, varsU, varsE, varsS, varsD, varsK, varsW>>
  /\ UNCHANGED varsO
  /\ unwinding
  /\ stack # << >>
  /\ IF Top.kind = "transact" THEN Top.pc = "body" ELSE TRUE
  /\ unwinding' = FALSE
  /\ UNCHANGED <<txn, cleanups, stack, changed, nTx, nCalls, nThrows, obsCalls,
                 deepCalls, updCalls, started, done, openedIn, threwRet>>

\* the steps of the cleanup loop
StepT ==
  \/ LoopIter
  \/ CallObservers
  \/ CallDeepObservers
  \/ CleanupPasses
  \/ LoopEnd

NoThrowT ==
  \/ CallTransact
  \/ \E y \in Types : Mutate(y)
  \/ ReturnBody
  \/ ReturnCallback
  \/ StepT

NextT ==
  \/ NoThrowT
  \/ ThrowBody
  \/ ThrowCallback
  \/ Unwind
  \/ Catch

\* ============================================================ delete sets
(* addToDeleteSet and sortAndMergeDeleteSet called directly: any ranges,   *)
(* in any order, are added to a delete set, which is then sorted and       *)
(* merged.                                                                 *)
MaxDels == 3       \* calls of addToDeleteSet
MaxDelClock == 3   \* the largest clock of a range
MaxDelLen == 2     \* the largest length of a range

InitU ==
  /\ uds = EmptyDS
  /\ usorted = EmptyDS
  /\ upc = "build"

DelCount(ds) == Len(ds[1]) + Len(ds[2])

AddToDeleteSetCall(c, clock, len) ==
  /\ UNCHANGED <<varsR, varsT, varsE, varsO, varsS, varsD, varsK, varsW>>
  /\ upc = "build"
  /\ DelCount(uds) < MaxDels
  /\ uds' = addToDeleteSet(uds, <<c, clock>>, len)
  /\ UNCHANGED <<usorted, upc>>

SortAndMergeCall ==
  /\ UNCHANGED <<varsR, varsT, varsE, varsO, varsS, varsD, varsK, varsW>>
  /\ upc = "build"
  /\ usorted' = sortAndMergeDeleteSet(uds)
  /\ upc' = "sorted"
  /\ UNCHANGED uds

NextU ==
  \/ \E c \in Authors : \E clock \in 0 .. MaxDelClock : \E len \in 1 .. MaxDelLen :
       AddToDeleteSetCall(c, clock, len)
  \/ SortAndMergeCall

\* =========================================================== update event
(* One document runs whole transactions: local edits, empty transactions   *)
(* and the updates of a peer, applied in any order and any number of       *)
(* times; its 'update' listener is registered and removed at will.  The    *)
(* finished transaction (deleteSet, beforeState, afterState) stays in      *)
(* edoc until the next one opens; updateEvent tells whether a listener was *)
(* registered at the end of its cleanup and whether 'update' was emitted.  *)
(* The document is client 1, the peer client 2; eseen holds the updates    *)
(* the document has applied.                                               *)
MaxEmitTx == 4     \* transactions of the document and of the peer
MaxEmitLen == 3    \* elements of one insert of the peer

InitE ==
  /\ edoc = EmptyDoc
  /\ epeer = EmptyDoc
  /\ emsgs = {}
  /\ eseen = {}
  /\ listening = FALSE
  /\ updateEvent = [listener |-> FALSE, emitted |-> FALSE]
  /\ nEmitTx = 0

\* transact, lines 272-278: the update message, when a listener is registered
updateMessage(hasUpdateObserver, D) ==
  IF hasUpdateObserver THEN computeUpdateMessageFromTransaction(D) ELSE NoMsg

\* transact(doc, f) from the open to the end of the cleanup loop, D the
\* document as the body left it
TransactE(D) ==
  LET T == cleanupTransaction(D)
  IN /\ nEmitTx < MaxEmitTx
     /\ nEmitTx' = nEmitTx + 1
     /\ edoc' = T
     /\ updateEvent' = [listener |-> listening,
                         emitted |-> updateMessage(listening, T) # NoMsg]
     /\ UNCHANGED <<epeer, emsgs, listening>>

\* doc.on('update', f) and doc.off('update', f)
ToggleListener ==
  /\ UNCHANGED <<varsR, varsT, varsU, varsO, varsS, varsD, varsK, varsW>>
  /\ listening' = ~listening
  /\ UNCHANGED <<edoc, epeer, emsgs, eseen, updateEvent, nEmitTx>>

InsertE(index, len) ==
  /\ UNCHANGED <<varsR, varsT, varsU, varsO, varsS, varsD, varsK, varsW>>
  /\ index <= Len(VisibleUnits(edoc))
  /\ TransactE(typeListInsertGenerics(openTransaction(edoc), 1, index, len))
  /\ UNCHANGED eseen

DeleteE(index, length) ==
  /\ UNCHANGED <<varsR, varsT, varsU, varsO, varsS, varsD, varsK, varsW>>
  /\ index + length <= Len(VisibleUnits(edoc))
  /\ TransactE(typeListDelete(openTransaction(edoc), index, length))
  /\ UNCHANGED eseen

\* doc.transact(() => {})
EmptyTransactionE ==
  /\ UNCHANGED <<varsR, varsT, varsU, varsO, varsS, varsD, varsK, varsW>>
  /\ TransactE(openTransaction(edoc))
  /\ UNCHANGED eseen

ApplyUpdateE(m) ==
  /\ UNCHANGED <<varsR, varsT, varsU, varsO, varsS, varsD, varsK, varsW>>
  /\ TransactE(readModel(openTransaction(edoc), m))
  /\ eseen' = eseen \cup {m}

\* a transaction of the peer; its update message goes to the network
PeerTransact(D) ==
  LET T == cleanupTransaction(D)
      m == computeUpdateMessageFromTransaction(T)
  IN /\ nEmitTx < MaxEmitTx
     /\ nEmitTx' = nEmitTx + 1
     /\ epeer' = closeTransaction(T)
     /\ emsgs' = IF m = NoMsg THEN emsgs ELSE emsgs \cup {m}
     /\ UNCHANGED <<edoc, eseen, listening, updateEvent>>

PeerInsert(index, len) ==
  /\ UNCHANGED <<varsR, varsT, varsU, varsO, varsS, varsD, varsK, varsW>>
  /\ index <= Len(VisibleUnits(epeer))
  /\ PeerTransact(typeListInsertGenerics(openTransaction(epeer), 2, index, len))

PeerDelete(index, length) ==
  /\ UNCHANGED <<varsR, varsT, varsU, varsO, varsS, varsD, varsK, varsW>>
  /\ index + length <= Len(VisibleUnits(epeer))
  /\ PeerTransact(typeListDelete(openTransaction(epeer), index, length))

NextE ==
  \/ ToggleListener
  \/ \E index \in 0 .. MaxEmitTx * MaxInsertLen : \E len \in 1 .. MaxInsertLen :
       InsertE(index, len)
  \/ \E index \in 0 .. MaxEmitTx * MaxInsertLen : \E length \in 1 .. MaxInsertLen :
       DeleteE(index, length)
  \/ EmptyTransactionE
  \/ \E m \in emsgs : ApplyUpdateE(m)
  \/ \E index \in 0 .. MaxEmitLen : \E len \in 1 .. MaxEmitLen : PeerInsert(index, len)
  \/ \E index \in 0 .. MaxEmitLen : \E length \in 1 .. MaxInsertLen :
       PeerDelete(index, length)

\* ============================================================ struct array
(* The array of client 1 is built by appending structs of every kind, each *)
(* at the client's state; then findIndexSS, getItemCleanStart or           *)
(* getItemCleanEnd is called once with a clock inside or outside the       *)
(* known state.                                                            *)
MaxStructs == 3     \* structs appended
MaxStructLen == 3   \* length of one struct

NoCall == [op |-> "none", clock |-> 0, index |-> 0, struct |-> GC(1, 0, 0), before |-> << >>]

InitS ==
  /\ sstructs = << >>
  /\ scall = NoCall

\* a struct of client 1 of the given kind and length at the client's state
NewStruct(kind, len) ==
  LET clock == getState([EmptyClients EXCEPT ![1] = sstructs], 1)
      origin == IF clock = 0 THEN NoID ELSE <<1, clock - 1>>
  IN IF kind = "ItemString"
     THEN ItemString(1, clock, origin, NoID, [k \in 1 .. len |-> CharOf(1, clock + k - 1)])
     ELSE IF kind = "ItemDeleted" THEN ItemDeleted(1, clock, origin, NoID, len)
     ELSE GC(1, clock, len)

StoreOf(structs) == [EmptyDoc EXCEPT !.clients[1] = structs]

AddStructCall(kind, len) ==
  /\ UNCHANGED <<varsR, varsT, varsU, varsE, varsO, varsD, varsK, varsW>>
  /\ scall = NoCall
  /\ Len(sstructs) < MaxStructs
  /\ sstructs' = addStruct([EmptyClients EXCEPT ![1] = sstructs], NewStruct(kind, len)).clients[1]
  /\ UNCHANGED scall

FindIndexSSCall(clock) ==
  /\ UNCHANGED <<varsR, varsT, varsU, varsE, varsO, varsD, varsK, varsW>>
  /\ scall = NoCall
  /\ scall' = [NoCall EXCEPT !.op = "findIndexSS", !.clock = clock,
                             !.index = findIndexSS(sstructs, clock), !.before = sstructs]
  /\ UNCHANGED sstructs

\* the callers look at the state first: the id is within the known state
GetItemCleanStartCall(clock) ==
  /\ UNCHANGED <<varsR, varsT, varsU, varsE, varsO, varsD, varsK, varsW>>
  /\ scall = NoCall
  /\ clock < getState([EmptyClients EXCEPT ![1] = sstructs], 1)
  /\ scall' = [op |-> "getItemCleanStart", clock |-> clock,
               index |-> findIndexSS(sstructs, clock),
               struct |-> getItemCleanStartStruct(StoreOf(sstructs), <<1, clock>>),
               before |-> sstructs]
  /\ sstructs' = getItemCleanStart(StoreOf(sstructs), <<1, clock>>).clients[1]

GetItemCleanEndCall(clock) ==
  /\ UNCHANGED <<varsR, varsT, varsU, varsE, varsO, varsD, varsK, varsW>>
  /\ scall = NoCall
  /\ clock < getState([EmptyClients EXCEPT ![1] = sstructs], 1)
  /\ scall' = [op |-> "getItemCleanEnd", clock |-> clock,
               index |-> findIndexSS(sstructs, clock),
               struct |-> getItemCleanEndStruct(StoreOf(sstructs), <<1, clock>>),
               before |-> sstructs]
  /\ sstructs' = getItemCleanEnd(StoreOf(sstructs), <<1, clock>>).clients[1]

NextS ==
  \/ \E kind \in {"ItemString", "ItemDeleted", "GC"} : \E len \in 1 .. MaxStructLen :
       AddStructCall(kind, len)
  \/ \E clock \in 0 .. MaxStructs * MaxStructLen + 1 : FindIndexSSCall(clock)
  \/ \E clock \in 0 .. MaxStructs * MaxStructLen : GetItemCleanStartCall(clock)
  \/ \E clock \in 0 .. MaxStructs * MaxStructLen : GetItemCleanEndCall(clock)

\* ========================================================= deep observers
(* The delivery of observer events at the close of a transaction on a      *)
(* document with nested types: "mid" is an element of the root type and    *)
(* "leaf" an element of "mid".  A body or a callback inserts into a type   *)
(* or deletes a nested type; every type has an observer and a deep         *)
(* handler.                                                                *)
(*   hdeleted   the nested types whose _item.deleted is true               *)
(*   hchanged   transaction.changed of each transaction, in insertion      *)
(*              order (transactions are numbered in the order of creation) *)
(*   hparents   transaction.changedParentTypes of the transaction whose    *)
(*              cleanup runs, in insertion order: type and its events,     *)
(*              an event standing for its target                           *)
(*   htxn       doc._transaction (0 is null); hcur the transaction whose   *)
(*              cleanup iteration runs (0: none)                           *)
(*   hcalls     history: the calls of deep handlers, with the events       *)
(*              passed                                                     *)
MaxDeepTx == 3     \* transactions created

NestedTypes == {"mid", "leaf"}
SharedTypes == {"root"} \cup NestedTypes

\* type._item.parent
parentOf(type) == IF type = "leaf" THEN "mid" ELSE "root"

\* a type and the types nested in it
Subtree(type) == IF type = "mid" THEN {"mid", "leaf"} ELSE {type}

InitD ==
  /\ hdeleted = {}
  /\ hchanged = [t \in 1 .. MaxDeepTx |-> << >>]
  /\ hparents = << >>
  /\ htxn = 0
  /\ hcreated = 0
  /\ hcur = 0
  /\ hpc = "idle"
  /\ hk = 0
  /\ hcalls = {}

\* what user code does to the document: nothing, an insert into a type, or
\* the delete of a nested type from its parent
UserActs ==
  {[op |-> "none", type |-> "root"]}
    \cup {[op |-> "insert", type |-> y] : y \in SharedTypes}
    \cup {[op |-> "delete", type |-> z] : z \in NestedTypes}

\* map.setIfUndefined(changedParentTypes, type, () => []).push(event), for
\* the type and each of its ancestors
RECURSIVE pushEvent(_, _, _)
pushEvent(cpt, type, target) ==
  LET idx == {j \in 1 .. Len(cpt) : cpt[j].type = type}
      cpt1 == IF idx = {}
              THEN Append(cpt, [type |-> type, events |-> <<target>>])
              ELSE LET j == CHOOSE x \in idx : TRUE
                   IN [cpt EXCEPT ![j].events = Append(@, target)]
  IN IF type = "root" THEN cpt1 ELSE pushEvent(cpt1, parentOf(type), target)

\* callTypeObservers(type, transaction, event): the event of the type is
\* recorded for the type and for every ancestor
callTypeObservers(cpt, type) == pushEvent(cpt, type, type)

\* lines 159-162: the events whose target is not deleted
filterEvents(events, deleted) ==
  SelectSeq(events, LAMBDA target : target = "root" \/ target \notin deleted)

\* the type enters transaction.changed
addChanged(chg, t, type) ==
  IF InSeq(type, chg[t]) THEN chg ELSE [chg EXCEPT ![t] = Append(@, type)]

\* the act of user code within transaction t: an insert adds the type to
\* transaction.changed; a delete marks the item of the type (and the items
\* nested in it) deleted and adds the parent to transaction.changed
ActD(a, t) ==
  /\ a.type \notin hdeleted
  /\ hchanged' = addChanged(hchanged, t, IF a.op = "insert" THEN a.type ELSE parentOf(a.type))
  /\ hdeleted' = IF a.op = "delete" THEN hdeleted \cup Subtree(a.type) ELSE hdeleted

\* a callback runs user code: it does nothing to the document, or it calls
\* transact; the call creates a transaction when doc._transaction is null
\* (lines 133-138) and, not being the head of the queue, leaves it set
CallbackD(a) ==
  IF a.op = "none"
  THEN UNCHANGED <<hchanged, hdeleted, htxn, hcreated>>
  ELSE IF htxn = 0
       THEN /\ hcreated < MaxDeepTx
            /\ hcreated' = hcreated + 1
            /\ htxn' = hcreated + 1
            /\ ActD(a, hcreated + 1)
       ELSE /\ ActD(a, htxn)
            /\ UNCHANGED <<htxn, hcreated>>

\* lines 133-138: transact called by the user of the document
TransactD ==
  /\ UNCHANGED <<varsR, varsT, varsU, varsE, varsO, varsS, varsK, varsW>>
  /\ hpc = "idle"
  /\ hcreated < MaxDeepTx
  /\ hcreated' = hcreated + 1
  /\ htxn' = hcreated + 1
  /\ hpc' = "body"
  /\ UNCHANGED <<hdeleted, hchanged, hparents, hcur, hk, hcalls>>

\* line 140: f changes the document
BodyD(a) ==
  /\ UNCHANGED <<varsR, varsT, varsU, varsE, varsO, varsS, varsK, varsW>>
  /\ hpc = "body"
  /\ a.op # "none"
  /\ ActD(a, htxn)
  /\ UNCHANGED <<hparents, htxn, hcreated, hcur, hpc, hk, hcalls>>

\* lines 141-153: f returns; the cleanup of the head of the queue begins
EndBodyD ==
  /\ UNCHANGED <<varsR, varsT, varsU, varsE, varsO, varsS, varsK, varsW>>
  /\ hpc = "body"
  /\ hcur' = htxn
  /\ htxn' = 0
  /\ hparents' = << >>
  /\ hpc' = "observers"
  /\ hk' = 0
  /\ UNCHANGED <<hdeleted, hchanged, hcreated, hcalls>>

\* lines 155-157: itemtype._callObserver for the next changed type; the
\* observer runs user code
CallObserverD(a) ==
  /\ UNCHANGED <<varsR, varsT, varsU, varsE, varsO, varsS, varsK, varsW>>
  /\ hpc = "observers"
  /\ hk < Len(hchanged[hcur])
  /\ hparents' = callTypeObservers(hparents, At(hchanged[hcur], hk))
  /\ hk' = hk + 1
  /\ CallbackD(a)
  /\ UNCHANGED <<hcur, hpc, hcalls>>

\* line 158: every changed type had its observer called
EndObserversD ==
  /\ UNCHANGED <<varsR, varsT, varsU, varsE, varsO, varsS, varsK, varsW>>
  /\ hpc = "observers"
  /\ hk = Len(hchanged[hcur])
  /\ hpc' = "deep"
  /\ hk' = 0
  /\ UNCHANGED <<hdeleted, hchanged, hparents, htxn, hcreated, hcur, hcalls>>

\* lines 158-170: the next entry of changedParentTypes: the events are
\* filtered and the deep handlers of the type are called with them; a
\* handler runs user code
DeliverDeepD(a) ==
  /\ UNCHANGED <<varsR, varsT, varsU, varsE, varsO, varsS, varsK, varsW>>
  /\ hpc = "deep"
  /\ hk < Len(hparents)
  /\ hcalls' = hcalls \cup {[tx |-> hcur, type |-> At(hparents, hk).type,
                               events |-> filterEvents(At(hparents, hk).events, hdeleted),
                               recorded |-> At(hparents, hk).events]}
  /\ hk' = hk + 1
  /\ CallbackD(a)
  /\ UNCHANGED <<hparents, hcur, hpc>>

\* lines 146-153, 280: the iteration ends; the next transaction of the
\* queue is cleaned up, or the queue is emptied
EndIterationD ==
  /\ UNCHANGED <<varsR, varsT, varsU, varsE, varsO, varsS, varsK, varsW>>
  /\ hpc = "deep"
  /\ hk = Len(hparents)
  /\ IF hcur < hcreated
     THEN /\ hcur' = hcur + 1
          /\ htxn' = 0
          /\ hpc' = "observers"
     ELSE /\ hcur' = 0
          /\ hpc' = "idle"
          /\ UNCHANGED htxn
  /\ hparents' = << >>
  /\ hk' = 0
  /\ UNCHANGED <<hdeleted, hchanged, hcreated, hcalls>>

NextD ==
  \/ TransactD
  \/ \E a \in UserActs : BodyD(a)
  \/ EndBodyD
  \/ \E a \in UserActs : CallObserverD(a)
  \/ EndObserversD
  \/ \E a \in UserActs : DeliverDeepD(a)
  \/ EndIterationD

\* ============================================================ map entries
(* A shared map of client 1: parent._map holds, per sub-key, the latest    *)
(* item of the key.  Every set of a key appends an item whose left is the  *)
(* entry of the key and deletes that entry; a transaction holds any number *)
(* of sets and deletes and ends with the gc pass and the merge pass.       *)
(*   kstructs   store.clients.get(1)                                       *)
(*   kmap       parent._map: key -> the clock of the struct that is the    *)
(*              entry (a reference to the struct), NoEntry when absent     *)
(*   kds        transaction.deleteSet; kbefore transaction.beforeState of  *)
(*              client 1                                                   *)
MaxMapOps == 5     \* sets and deletes

Keys == {"a", "b"}
NoEntry == -1

InitK ==
  /\ kstructs = << >>
  /\ kmap = [key \in Keys |-> NoEntry]
  /\ kds = EmptyDS
  /\ kbefore = 0
  /\ kpc = "idle"
  /\ kops = 0

\* a value of the map: an item of length 1 with a parentSub
MapItem(clock, origin, parentSub) ==
  [client |-> 1, clock |-> clock, kind |-> "ItemJSON", deleted |-> FALSE,
   content |-> << >>, len |-> 1, origin |-> origin, rightOrigin |-> NoID,
   parentSub |-> parentSub]

\* parent._map.get(key): the struct the entry refers to
EntryOf(structs, map, key) == At(structs, findIndexSS(structs, map[key]))

\* item.delete(transaction) on structs[index]: <<structs, ds>>
deleteSub(structs, ds, index) ==
  LET struct == At(structs, index)
  IN IF struct.deleted THEN <<structs, ds>>
     ELSE <<SetAt(structs, index, [struct EXCEPT !.deleted = TRUE]),
            addToDeleteSet(ds, IdOf(struct), Length(struct))>>

\* gc pass over the structs of one delete item: struct.gc(store, false)
\* replaces a deleted item by an ItemDeleted with the same id, parent and
\* parentSub
RECURSIVE gcLoopSub(_, _, _)
gcLoopSub(structs, endDeleteItemClock, si) ==
  IF si < Len(structs) /\ At(structs, si).clock < endDeleteItemClock
  THEN LET struct == At(structs, si)
       IN gcLoopSub(IF struct.deleted /\ struct.kind # "GC"
                    THEN SetAt(structs, si, [struct EXCEPT !.kind = "ItemDeleted"])
                    ELSE structs,
                    endDeleteItemClock, si + 1)
  ELSE structs

RECURSIVE gcPassSub(_, _, _)
gcPassSub(structs, deleteItems, di) ==
  IF di >= 0
  THEN LET deleteItem == At(deleteItems, di)
       IN gcPassSub(gcLoopSub(structs, deleteItem.clock + deleteItem.len,
                              findIndexSS(structs, deleteItem.clock)),
                    deleteItems, di - 1)
  ELSE structs

\* mergeItemWith(left, right) for the items of a map
mergeItemWithSub(left, right) ==
  /\ left.clock + Length(left) = right.clock
  /\ left.deleted = right.deleted
  /\ left.kind = right.kind
  /\ left.parentSub = right.parentSub
  /\ right.origin = LastId(left)

\* a faulty tryToMergeWithLeft that leaves parent._map as it is: the entry
\* of a key depends on lines 182-185
tryToMergeWithLeftSubKeepsMap(S, pos) ==
  LET left == At(S.structs, pos - 1)
      right == At(S.structs, pos)
  IN IF left.deleted = right.deleted /\ left.kind = right.kind /\ mergeItemWithSub(left, right)
     THEN [S EXCEPT !.structs = Splice(SetAt(S.structs, pos - 1,
                                              [left EXCEPT !.len = @ + right.len]),
                                        pos, 1, << >>)]
     ELSE S

\* tryToMergeWithLeft(structs, pos), lines 176-188, on the array and
\* parent._map: S is [structs, map]
tryToMergeWithLeftSub(S, pos) ==
  LET left == At(S.structs, pos - 1)
      right == At(S.structs, pos)
  IN IF left.deleted = right.deleted /\ left.kind = right.kind /\ mergeItemWithSub(left, right)
     THEN [structs |-> Splice(SetAt(S.structs, pos - 1, [left EXCEPT !.len = @ + right.len]),
                              pos, 1, << >>),
           map |-> IF S.map[right.parentSub] = right.clock
                   THEN [S.map EXCEPT ![right.parentSub] = left.clock]
                   ELSE S.map]
     ELSE S

\* lines 226-232: si runs from mostRightIndexToCheck down
RECURSIVE mergeDeleteLoopSub(_, _, _)
mergeDeleteLoopSub(S, clock, si) ==
  IF si > 0 /\ At(S.structs, si).clock >= clock
  THEN mergeDeleteLoopSub(tryToMergeWithLeftSub(S, si), clock, si - 1)
  ELSE S

\* lines 222-233: the delete items right to left
RECURSIVE mergeDeleteItemsSub(_, _, _)
mergeDeleteItemsSub(S, deleteItems, di) ==
  IF di >= 0
  THEN LET deleteItem == At(deleteItems, di)
           mostRightIndexToCheck ==
             Min2(Len(S.structs) - 1,
                  1 + findIndexSS(S.structs, deleteItem.clock + deleteItem.len - 1))
       IN mergeDeleteItemsSub(mergeDeleteLoopSub(S, deleteItem.clock, mostRightIndexToCheck),
                              deleteItems, di - 1)
  ELSE S

\* lines 246-248: i runs right to left down to firstChangePos
RECURSIVE mergeAdvancedLoopSub(_, _, _)
mergeAdvancedLoopSub(S, i, firstChangePos) ==
  IF i >= firstChangePos
  THEN mergeAdvancedLoopSub(tryToMergeWithLeftSub(S, i), i - 1, firstChangePos)
  ELSE S

\* lines 214-251: the merge pass of client 1
mergePassSub(S, deleteItems, beforeClock) ==
  LET S1 == IF deleteItems = << >> THEN S
            ELSE mergeDeleteItemsSub(S, deleteItems, Len(deleteItems) - 1)
  IN IF S1.structs # << >> /\ beforeClock # getState(StoreOf(S1.structs).clients, 1)
     THEN mergeAdvancedLoopSub(S1, Len(S1.structs) - 1,
                               Max2(findIndexSS(S1.structs, beforeClock), 1))
     ELSE S1

\* transact, lines 133-138
BeginK ==
  /\ UNCHANGED <<varsR, varsT, varsU, varsE, varsO, varsS, varsD, varsW>>
  /\ kpc = "idle"
  /\ kpc' = "body"
  /\ kds' = EmptyDS
  /\ kbefore' = getState(StoreOf(kstructs).clients, 1)
  /\ UNCHANGED <<kstructs, kmap, kops>>

\* ymap.set(key, value): the new item has the entry of the key as its left
\* and origin; integrate sets parent._map[key] to the item and deletes the
\* item it replaces
SetK(key) ==
  /\ UNCHANGED <<varsR, varsT, varsU, varsE, varsO, varsS, varsD, varsW>>
  /\ kpc = "body"
  /\ kops < MaxMapOps
  /\ kops' = kops + 1
  /\ LET clock == getState(StoreOf(kstructs).clients, 1)
         origin == IF kmap[key] = NoEntry THEN NoID
                   ELSE LastId(EntryOf(kstructs, kmap, key))
         d == IF kmap[key] = NoEntry THEN <<kstructs, kds>>
              ELSE deleteSub(kstructs, kds, findIndexSS(kstructs, kmap[key]))
     IN /\ kstructs' = Append(d[1], MapItem(clock, origin, key))
        /\ kds' = d[2]
        /\ kmap' = [kmap EXCEPT ![key] = clock]
  /\ UNCHANGED <<kbefore, kpc>>

\* ymap.delete(key): the entry of the key is deleted
DeleteK(key) ==
  /\ UNCHANGED <<varsR, varsT, varsU, varsE, varsO, varsS, varsD, varsW>>
  /\ kpc = "body"
  /\ kops < MaxMapOps
  /\ kmap[key] # NoEntry
  /\ ~EntryOf(kstructs, kmap, key).deleted
  /\ kops' = kops + 1
  /\ LET d == deleteSub(kstructs, kds, findIndexSS(kstructs, kmap[key]))
     IN kstructs' = d[1] /\ kds' = d[2]
  /\ UNCHANGED <<kmap, kbefore, kpc>>

\* transact, lines 141-270: the cleanup of the transaction
CleanupK ==
  /\ UNCHANGED <<varsR, varsT, varsU, varsE, varsO, varsS, varsD, varsW>>
  /\ kpc = "body"
  /\ LET deleteItems == sortAndMergeDeleteSet(kds)[1]
         gced == IF deleteItems = << >> THEN kstructs
                 ELSE gcPassSub(kstructs, deleteItems, Len(deleteItems) - 1)
         S == mergePassSub([structs |-> gced, map |-> kmap], deleteItems, kbefore)
     IN /\ kstructs' = S.structs
        /\ kmap' = S.map
        /\ kds' = [kds EXCEPT ![1] = deleteItems]
  /\ kpc' = "idle"
  /\ UNCHANGED <<kbefore, kops>>

NextK ==
  \/ BeginK
  \/ \E key \in Keys : SetK(key)
  \/ \E key \in Keys : DeleteK(key)
  \/ CleanupK

\* ========================================================= wired documents
(* Two documents, each with an 'update' listener that applies the update   *)
(* to the other document (README, "Listen to update events and apply them  *)
(* on remote client").  The listener runs at the end of the cleanup        *)
(* iteration of the transaction that emitted the update, so the call of    *)
(* applyUpdate it makes runs to the end of its body before anything else   *)
(* happens; wflight holds the updates emitted and not yet applied, in the  *)
(* order of emission.  User code edits a document only when no update is   *)
(* in flight.                                                              *)
(*   wknown   the updates a document has emitted or applied                *)
(*   wevents  the 'update' events since the last local change              *)
MaxWiredOps == 3      \* local changes over both documents
MaxWiredEvents == 4   \* 'update' events followed after one local change

Other(r) == 3 - r

InitW ==
  /\ wdocs = [r \in Replicas |-> EmptyDoc]
  /\ wflight = << >>
  /\ wknown = [r \in Replicas |-> {}]
  /\ wevents = 0
  /\ wops = 0

\* transact on document r with body result D, lines 272-278 included: the
\* 'update' event reaches the listener, which is to apply it to the other
\* document
TransactW(r, D, before) ==
  LET T == cleanupTransaction(D)
      m == computeUpdateMessageFromTransaction(T)
  IN /\ wdocs' = [wdocs EXCEPT ![r] = closeTransaction(T)]
     /\ IF m = NoMsg
        THEN /\ wflight' = before
             /\ UNCHANGED <<wknown>>
        ELSE /\ wflight' = Append(before, [to |-> Other(r), msg |-> m])
             /\ wknown' = [wknown EXCEPT ![r] = @ \cup {m}]
     /\ wevents' = IF m = NoMsg THEN 0 ELSE 1

\* doc.getArray('myarray').insert(index, content) by the user
InsertW(r, index, len) ==
  /\ UNCHANGED <<varsR, varsT, varsU, varsE, varsO, varsS, varsD, varsK>>
  /\ wflight = << >>
  /\ wops < MaxWiredOps
  /\ index <= Len(VisibleUnits(wdocs[r]))
  /\ TransactW(r, typeListInsertGenerics(openTransaction(wdocs[r]), r, index, len), << >>)
  /\ wops' = wops + 1

\* doc.getArray('myarray').delete(index, length) by the user
DeleteW(r, index, length) ==
  /\ UNCHANGED <<varsR, varsT, varsU, varsE, varsO, varsS, varsD, varsK>>
  /\ wflight = << >>
  /\ wops < MaxWiredOps
  /\ index + length <= Len(VisibleUnits(wdocs[r]))
  /\ TransactW(r, typeListDelete(openTransaction(wdocs[r]), index, length), << >>)
  /\ wops' = wops + 1

\* the listener: Y.applyUpdate(other, update), and the 'update' event of
\* that transaction, if it has one
ListenerW ==
  /\ UNCHANGED <<varsR, varsT, varsU, varsE, varsO, varsS, varsD, varsK>>
  /\ wflight # << >>
  /\ wevents < MaxWiredEvents
  /\ LET r == Head(wflight).to
         m == Head(wflight).msg
         T == applyUpdate(wdocs[r], m)
         e == computeUpdateMessageFromTransaction(T)
     IN /\ wdocs' = [wdocs EXCEPT ![r] = closeTransaction(T)]
        /\ wflight' = IF e = NoMsg THEN Tail(wflight)
                      ELSE Append(Tail(wflight), [to |-> Other(r), msg |-> e])
        /\ wknown' = [wknown EXCEPT ![r] = @ \cup {m} \cup (IF e = NoMsg THEN {} ELSE {e})]
        /\ wevents' = IF e = NoMsg THEN wevents ELSE wevents + 1
  /\ UNCHANGED wops

NextW ==
  \/ \E r \in Authors : \E index \in 0 .. MaxWiredOps * MaxInsertLen :
       \E len \in 1 .. MaxInsertLen : InsertW(r, index, len)
  \/ \E r \in Authors : \E index \in 0 .. MaxWiredOps * MaxInsertLen :
       \E length \in 1 .. MaxInsertLen : DeleteW(r, index, length)
  \/ ListenerW

vars == <<varsR, varsT, varsU, varsE, varsO, varsS, varsD, varsK, varsW>>

Init == InitR /\ InitT /\ InitU /\ InitE /\ InitS /\ InitD /\ InitK /\ InitW
Next == NextR
Spec == Init /\ [][Next]_vars

\* direct calls on a delete set
SpecDS == Init /\ [][NextU]_vars

SpecUpdate == Init /\ [][NextE]_vars

SpecStore == Init /\ [][NextS]_vars

\* the delivery of observer events on a document with nested types
SpecDeep == Init /\ [][NextD]_vars

\* the sets and deletes of the keys of a shared map
SpecMap == Init /\ [][NextK]_vars

\* two documents that apply each other's updates
SpecWired == Init /\ [][NextW]_vars

\* transact with user code that may throw
SpecTx == Init /\ [][NextT]_vars

\* transact with user code that never throws; a call that has begun runs on
\* (JavaScript runs a synchronous call to its end) and user code returns
SpecTxFair ==
  /\ Init
  /\ [][NoThrowT]_vars
  /\ WF_vars(StepT \/ ReturnBody \/ ReturnCallback)

\* ------------------------------------------------------- observations
\* what the unit u shows: the character its struct holds for it
UnitContent(clients, u) ==
  LET s == StructAtUnit(clients, u) IN s.content[u[2] - s.clock + 1]

\* yarray.toArray()
toArray(D) ==
  LET vis == VisibleUnits(D) IN [k \in 1 .. Len(vis) |-> UnitContent(D.clients, vis[k])]

\* the deleted units of a document
DeletedUnits(D) ==
  {u \in {D.ord[k] : k \in 1 .. Len(D.ord)} : UnitDeleted(D.clients, u)}

Idle(r) == cur # r

ParkedUnits(D) ==
  UNION {UNION {{<<c, D.pdr[i][c][k].clock + d>> : d \in 0 .. D.pdr[i][c][k].len - 1}
                : k \in 1 .. Len(D.pdr[i][c])}
         : <<i, c>> \in (1 .. Len(D.pdr)) \X Authors}

C2_IdempotentWithParked ==
  cur = 0 =>
    \A r \in Replicas : \A m \in msgs :
      LET once == applyUpdate(docs[r], m)
          twice == applyUpdate(once, m)
      IN /\ getStateVector(twice.clients) = getStateVector(once.clients)
         /\ twice.clients = once.clients
         /\ DeletedUnits(twice) = DeletedUnits(once)
         /\ twice.pend = once.pend
         /\ twice.pdr = once.pdr

\* What a second application leaves alone: the state vector, the struct
\* store, the sequence, the deleted units, the pending struct refs and the
\* set of units the parked delete sets name.
IdempotentUpToParkedList ==
  cur = 0 =>
    \A r \in Replicas : \A m \in msgs :
      LET once == applyUpdate(docs[r], m)
          twice == applyUpdate(once, m)
      IN /\ getStateVector(twice.clients) = getStateVector(once.clients)
         /\ twice.clients = once.clients
         /\ twice.ord = once.ord
         /\ DeletedUnits(twice) = DeletedUnits(once)
         /\ twice.pend = once.pend
         /\ ParkedUnits(twice) = ParkedUnits(once)

C4_Contiguity ==
  \A r \in Replicas : integretyCheck(docs[r].clients)

C4_Witness ==
  \E r \in Replicas : \E c \in Authors :
    /\ r # c
    /\ cur = 0
    /\ Len(docs[r].clients[c]) >= 2
    /\ \E k \in 1 .. Len(docs[r].clients[c]) : docs[r].clients[c][k].kind = "ItemDeleted"
    /\ \E k \in 1 .. Len(docs[r].clients[c]) : docs[r].clients[c][k].kind = "ItemString"
    /\ integretyCheck(docs[r].clients)

\* (C10) getState(store, c) never decreases, for every client c.
C10_StateVectorMonotonic ==
  [][\A r \in Replicas : \A c \in Authors :
       getState(docs'[r].clients, c) >= getState(docs[r].clients, c)]_vars


C10_Witness ==
  \E r \in Replicas : \E c \in Authors :
    /\ r # c
    /\ cur = 0
    /\ nDeliv >= 2
    /\ getState(docs[r].clients, c) >= 3
    /\ Len(docs[r].clients[c]) >= 2

\* tryToMergeWithLeft(structs, pos) would merge structs[pos] into structs[pos - 1]
WouldMerge(D, client, pos) ==
  LET structs == D.clients[client]
      left == At(structs, pos - 1)
      right == At(structs, pos)
  IN left.deleted = right.deleted /\ left.kind = right.kind /\ mergeWith(D.ord, left, right).ok

\* (C12) Merge soundness: when the merge pass of a transaction's cleanup has
\* finished, no client's array holds two adjacent structs that mergeWith
\* would merge.
C12_MergeSoundness ==
  \A r \in Replicas : Idle(r) =>
    \A c \in Authors : \A pos \in 1 .. Len(docs[r].clients[c]) - 1 :
      ~WouldMerge(docs[r], c, pos)

\* left.clock + left.len < right.clock for every consecutive pair
StrictlyApart(ds) ==
  \A c \in Authors : \A k \in 1 .. Len(ds[c]) - 1 :
    ds[c][k].clock + ds[c][k].len < ds[c][k + 1].clock

\* no two ranges of a client share a unit
PairwiseDisjoint(ds) ==
  \A c \in Authors : \A i \in 1 .. Len(ds[c]) : \A j \in 1 .. Len(ds[c]) :
    i # j => (ds[c][i].clock + ds[c][i].len <= ds[c][j].clock
              \/ ds[c][j].clock + ds[c][j].len <= ds[c][i].clock)

\* (C11 as stated) After sortAndMergeDeleteSet the ranges of every client are
\* strictly increasing with neither overlap nor adjacency, for any sequence
\* of addToDeleteSet calls before it.
C11_SortedAnyCalls ==
  upc = "sorted" => StrictlyApart(usorted)

\* (C11 amended) After sortAndMergeDeleteSet the ranges of every client are
\* strictly increasing with neither overlap nor adjacency, for any sequence
\* of addToDeleteSet calls whose ranges are pairwise disjoint.
C11_SortedDisjointCalls ==
  (upc = "sorted" /\ PairwiseDisjoint(uds)) => StrictlyApart(usorted)

C11_Witness ==
  /\ upc = "sorted"
  /\ PairwiseDisjoint(uds)
  /\ \E c \in Authors :
       /\ Len(uds[c]) = 3
       /\ uds[c][1].clock > uds[c][2].clock
       /\ Len(usorted[c]) = 2
  /\ StrictlyApart(usorted)

\* some range recorded for the client covers the clock
Covered(ds, c, clock) ==
  \E k \in 1 .. Len(ds[c]) : ds[c][k].clock <= clock /\ clock < ds[c][k].clock + ds[c][k].len

ProbeClocks == 0 .. (MaxDelClock + MaxDelLen)

\* (C31) as stated: on a delete set that has been sorted and merged,
\* isDeleted(ds, id) is true if and only if some range recorded for
\* id.client covers id.clock, and false for a client without ranges, for
\* any sequence of addToDeleteSet calls before sortAndMergeDeleteSet.
C31_IsDeletedAnyCalls ==
  upc = "sorted" =>
    \A c \in Authors : \A clock \in ProbeClocks :
      isDeleted(usorted, <<c, clock>>) <=> Covered(usorted, c, clock)

\* (C31) amended: on a delete set that has been sorted and merged from
\* ranges that are pairwise disjoint, isDeleted(ds, id) is true if and only
\* if some range recorded for id.client covers id.clock, and false for a
\* client without ranges.
C31_IsDeletedDisjointCalls ==
  (upc = "sorted" /\ PairwiseDisjoint(uds)) =>
    \A c \in Authors : \A clock \in ProbeClocks :
      /\ isDeleted(usorted, <<c, clock>>) <=> Covered(usorted, c, clock)
      /\ usorted[c] = << >> => ~isDeleted(usorted, <<c, clock>>)

\* a sorted and merged delete set of disjoint ranges in which client 1 has
\* two ranges and client 2 none: isDeleted is true inside the second range
\* and false in the gap
C31_Witness ==
  /\ upc = "sorted" /\ PairwiseDisjoint(uds)
  /\ Len(usorted[1]) = 2 /\ usorted[2] = << >>
  /\ isDeleted(usorted, <<1, usorted[1][2].clock>>)
  /\ ~isDeleted(usorted, <<1, usorted[1][2].clock - 1>>)
  /\ ~isDeleted(usorted, <<2, 0>>)

\* a struct of client c at any clock, as a caller may hand to addStruct
Candidate(c, clock, len) ==
  ItemString(c, clock, NoID, NoID, [k \in 1 .. len |-> CharOf(c, clock + k - 1)])

CandidateClocks == 0 .. (MaxOps * MaxInsertLen + 1)

\* (C13) addStruct appends the struct when its clock is the client's state;
\* when the client has structs and the clock is not the end of the last one
\* it fails and leaves the store unchanged.
C13_AddStructContract ==
  \A r \in Replicas : \A c \in Authors : \A clock \in CandidateClocks :
    \A len \in 1 .. MaxInsertLen :
      LET clients == docs[r].clients
          structs == clients[c]
          struct == Candidate(c, clock, len)
          res == addStruct(clients, struct)
      IN /\ clock = getState(clients, c) =>
              (res.ok /\ res.clients = [clients EXCEPT ![c] = Append(structs, struct)])
         /\ (structs # << >> /\ clock # structs[Len(structs)].clock + Length(structs[Len(structs)])) =>
              (~res.ok /\ res.clients = clients)

C13_Witness ==
  \E r \in Replicas : \E c \in Authors :
    LET clients == docs[r].clients
        state == getState(clients, c)
    IN /\ r # c
       /\ Len(clients[c]) >= 2
       /\ addStruct(clients, Candidate(c, state, 1)).ok
       /\ ~addStruct(clients, Candidate(c, state + 1, 1)).ok
       /\ ~addStruct(clients, Candidate(c, state - 1, 1)).ok
       /\ addStruct(clients, Candidate(c, state - 1, 1)).clients = clients

\* (C14) In every reachable state the array of every client that appears in
\* the struct store starts at clock 0, also when the first struct of a client
\* the store did not know has just been added.
C14_ArraysStartAtZero ==
  \A r \in Replicas : \A c \in Authors :
    docs[r].clients[c] # << >> => docs[r].clients[c][1].clock = 0

\* a replica holds a later struct of a client it does not know yet (parked,
\* not added), and a replica has added the first struct of a remote client
C14_Witness ==
  /\ \E r \in Replicas : \E c \in Authors : \E ref \in docs[r].pend :
       /\ ref.client = c /\ ref.clock > 0 /\ docs[r].clients[c] = << >>
  /\ \E r \in Replicas : \E c \in Authors :
       /\ r # c /\ docs[r].clients[c] # << >> /\ docs[r].clients[c][1].clock = 0

\* the finished transaction changed something: its delete set is not empty
\* or the state of a client advanced
ChangedSomething(D) ==
  DelCount(D.ds) > 0 \/ \E c \in Authors : D.as[c] # D.bs[c]

\* (C15) At the end of a transaction's cleanup an 'update' event is emitted
\* if and only if an 'update' listener is registered and the transaction
\* changed something (delete set or some client's state).
C15_UpdateIffChanged ==
  updateEvent.emitted <=> (updateEvent.listener /\ ChangedSomething(edoc))

\* every case of the claim: an update for new structs and for a delete alone;
\* none for an empty transaction, for an update applied again, for an update
\* whose structs are all parked, or without a listener
C15_WitnessInsert ==
  /\ updateEvent.emitted /\ DelCount(edoc.ds) = 0 /\ edoc.as[2] > edoc.bs[2]

C15_Witness ==
  /\ updateEvent.listener /\ updateEvent.emitted /\ DelCount(edoc.ds) > 0 /\ edoc.as = edoc.bs

C15_WitnessUnchanged ==
  /\ updateEvent.listener /\ ~updateEvent.emitted /\ edoc.pend # {}

C15_WitnessNoListener ==
  /\ ~updateEvent.listener /\ ~updateEvent.emitted /\ ChangedSomething(edoc)

C15_WitnessAppliedAgain ==
  /\ updateEvent.listener /\ ~updateEvent.emitted
  /\ edoc.clients[2] # << >> /\ edoc.clients[1] # << >>

\* the ranges of one client that readDeleteSet cannot apply at state s, in
\* the order read: of each range the part at and above s
RECURSIVE Remainders(_, _)
Remainders(dels, s) ==
  IF dels = << >> THEN << >>
  ELSE LET d == Head(dels)
           from == Max2(d.clock, s)
       IN IF d.clock + d.len > s
          THEN <<DeleteItem(from, d.clock + d.len - from)>> \o Remainders(Tail(dels), s)
          ELSE Remainders(Tail(dels), s)

\* (C16) readDeleteSet of a range (client, clock, len) at local state s of
\* that client: the units in [clock, min(clock+len, s)) are deleted
\* afterwards, and exactly the remainder [max(clock, s), clock+len) is parked
\* in pendingDeleteReaders (nothing when clock+len <= s, all when clock >= s).
C16_ReadDeleteSetSplit ==
  \A r \in Replicas : \A m \in msgs :
    Idle(r) =>
      LET D == openTransaction(docs[r])
          E == readDeleteSet(D, m.ds)
          parked == [c \in Authors |-> Remainders(m.ds[c], getState(D.clients, c))]
      IN /\ \A c \in Authors : \A k \in 1 .. Len(m.ds[c]) :
              LET d == m.ds[c][k]
                  s == getState(D.clients, c)
              IN \A clock \in d.clock .. (Min2(d.clock + d.len, s) - 1) :
                   UnitDeleted(E.clients, <<c, clock>>)
         /\ getStateVector(E.clients) = getStateVector(D.clients)
         /\ E.pdr = IF parked = EmptyDS THEN D.pdr ELSE Append(D.pdr, parked)

\* a replica has applied a delete of a range that begins below its state of
\* the client and ends above it: the lower part is deleted, the upper parked
C16_Witness ==
  \E r \in Replicas : \E m \in seen[r] : \E c \in Authors : \E k \in 1 .. Len(m.ds[c]) :
    LET d == m.ds[c][k]
        s == getState(docs[r].clients, c)
    IN /\ Idle(r) /\ r # c
       /\ d.clock < s /\ s < d.clock + d.len
       /\ \A clock \in d.clock .. (s - 1) : UnitDeleted(docs[r].clients, <<c, clock>>)
       /\ docs[r].pdr = <<[a \in Authors |->
                            IF a = c THEN <<DeleteItem(s, d.clock + d.len - s)>> ELSE << >>]>>

\* the units a delete set names
NamedUnits(ds) ==
  UNION {UNION {{<<c, ds[c][k].clock + d>> : d \in 0 .. ds[c][k].len - 1}
                : k \in 1 .. Len(ds[c])}
         : c \in Authors}

\* (C17) No received delete is lost: every unit that a received delete set
\* names and whose struct has been received is deleted; a range parked in
\* pendingDeleteReaders is applied by the transaction that integrates its
\* structs.
C17_NoDeleteLost ==
  \A r \in Replicas : \A m \in seen[r] : \A u \in NamedUnits(m.ds) :
    u[2] < getState(docs[r].clients, u[1]) => UnitDeleted(docs[r].clients, u)

\* a transaction that applies an update has integrated a struct and deleted
\* a unit of it: the delete had arrived before and was parked
C17_Witness ==
  /\ cur # 0 /\ ~local
  /\ docs[cur].pdr = << >>
  /\ \E u \in NamedUnits(docs[cur].ds) :
       /\ docs[cur].bs[u[1]] <= u[2] /\ u[2] < docs[cur].as[u[1]]
       /\ UnitDeleted(docs[cur].clients, u)
       /\ \E m \in seen[cur] : u \in NamedUnits(m.ds)

\* the update of the peer's insert(0, ['a','b','c']) into its empty array,
\* and the update of its delete(1, 1) after it
InsertABC ==
  [structs |-> [c \in Authors |->
                  IF c = 2
                  THEN <<ItemString(2, 0, NoID, NoID, <<CharOf(2, 0), CharOf(2, 1), CharOf(2, 2)>>)>>
                  ELSE << >>],
   ds |-> EmptyDS]

DeleteB ==
  [structs |-> [c \in Authors |-> << >>],
   ds |-> [c \in Authors |-> IF c = 2 THEN <<DeleteItem(1, 1)>> ELSE << >>]]

\* the document holds the three elements of the peer and nothing else, and
\* has deleted nothing of its own
OnlyABC(D) ==
  /\ D.clients[1] = << >>
  /\ getState(D.clients, 2) = 3
  /\ \A u \in {<<2, 0>>, <<2, 2>>} : ~UnitDeleted(D.clients, u)

\* (C18) Client A inserts ['a','b','c'] at 0 and deletes index 1 in a second
\* transaction: the delete travels as the single range (A, 1, 1), and a
\* replica that has applied both updates, in either order, reads ['a','c'].
C18_DeleteBeforeInsert ==
  /\ (InsertABC \in emsgs /\ getState(epeer.clients, 2) = 3
       /\ toArray(epeer) = <<CharOf(2, 0), CharOf(2, 2)>>) => DeleteB \in emsgs
  /\ (InsertABC \in eseen /\ DeleteB \in eseen /\ OnlyABC(edoc)) =>
       /\ toArray(edoc) = <<CharOf(2, 0), CharOf(2, 2)>>
       /\ edoc.pdr = << >>
       /\ edoc.pend = {}

\* the last transaction of the document integrated the insert and deleted
\* 'b' in it: the delete had arrived first and was parked
C18_Witness ==
  /\ InsertABC \in eseen /\ DeleteB \in eseen /\ OnlyABC(edoc)
  /\ edoc.bs[2] = 0 /\ edoc.as[2] = 3
  /\ edoc.ds[2] = <<DeleteItem(1, 1)>>
  /\ toArray(edoc) = <<CharOf(2, 0), CharOf(2, 2)>>

\* the same updates applied in the order of their making
C18_WitnessInOrder ==
  /\ InsertABC \in eseen /\ DeleteB \in eseen /\ OnlyABC(edoc)
  /\ edoc.bs[2] = 3 /\ edoc.as[2] = 3
  /\ edoc.ds[2] = <<DeleteItem(1, 1)>>
  /\ toArray(edoc) = <<CharOf(2, 0), CharOf(2, 2)>>

\* client c made its first insert at index 0 of a sequence that was empty for
\* it: the update of that struct names no origin and no right origin
InsertedIntoEmpty(c) ==
  \E m \in msgs :
    /\ m.structs[c] # << >>
    /\ m.structs[c][1].clock = 0
    /\ m.structs[c][1].origin = NoID
    /\ m.structs[c][1].rightOrigin = NoID

\* (C19) Two clients concurrently insert at index 0 of an empty sequence:
\* every replica that holds both items holds them in the same order, the
\* item of the smaller client id on the left.
C19_TieBreakByClient ==
  (InsertedIntoEmpty(1) /\ InsertedIntoEmpty(2)) =>
    \A r \in Replicas :
      (getState(docs[r].clients, 1) > 0 /\ getState(docs[r].clients, 2) > 0) =>
        PosOf(docs[r].ord, <<1, 0>>) < PosOf(docs[r].ord, <<2, 0>>)

\* both replicas have exchanged their concurrent inserts of one element and
\* read the same two elements, client 1's first
C19_Witness ==
  /\ InsertedIntoEmpty(1) /\ InsertedIntoEmpty(2)
  /\ cur = 0
  /\ \A r \in Replicas : toArray(docs[r]) = <<CharOf(1, 0), CharOf(2, 0)>>

\* the update of client c's first insert, one element at index 0 of a
\* sequence that was empty for it
FirstInsert(c) ==
  [structs |-> [a \in Authors |->
                  IF a = c THEN <<ItemString(c, 0, NoID, NoID, <<CharOf(c, 0)>>)>> ELSE << >>],
   ds |-> EmptyDS]

\* the update of client c's second insert, one element with the given
\* origins: array.insert(0, ['b']) names no origin and the first element as
\* right origin, array.insert(1, ['b']) names the first element as origin
SecondInsert(c, origin, rightOrigin) ==
  [structs |-> [a \in Authors |->
                  IF a = c THEN <<ItemString(c, 1, origin, rightOrigin, <<CharOf(c, 1)>>)>>
                  ELSE << >>],
   ds |-> EmptyDS]

\* replica c is idle and holds the two elements of its two inserts, both
\* undeleted, and nothing else
HoldsOnlyTwo(c) ==
  /\ Idle(c)
  /\ getState(docs[c].clients, c) = 2
  /\ \A a \in Authors \ {c} : docs[c].clients[a] = << >>
  /\ ~UnitDeleted(docs[c].clients, <<c, 0>>)
  /\ ~UnitDeleted(docs[c].clients, <<c, 1>>)

MergedAB(c) ==
  /\ Len(docs[c].clients[c]) = 1
  /\ docs[c].clients[c][1].clock = 0
  /\ docs[c].clients[c][1].content = <<CharOf(c, 0), CharOf(c, 1)>>
  /\ Length(docs[c].clients[c][1]) = 2

\* the cleanup of client c's second insert before its merge pass
SecondInsertCleanup(c) ==
  /\ cur = c /\ local /\ docs[c].bs[c] = 1 /\ docs[c].as[c] = 2
  /\ FirstInsert(c) \in msgs

TwoStructs(c) ==
  /\ Len(docs[c].clients[c]) = 2
  /\ docs[c].clients[c][1].clock = 0
  /\ docs[c].clients[c][2].clock = 1

C20_WitnessAtZero ==
  \E c \in Authors :
    /\ FirstInsert(c) \in msgs /\ SecondInsert(c, NoID, <<c, 0>>) \in msgs
    /\ HoldsOnlyTwo(c) /\ TwoStructs(c)

C20_WitnessTwoStructs ==
  \E c \in Authors : SecondInsertCleanup(c) /\ TwoStructs(c)

\* (C21) If applying an update fails because its delete-set section is
\* truncated after some of its ranges, the struct store is unchanged: no
\* struct has been split or marked deleted by the failed application.
C21_StoreUnchangedOnFailure ==
  \A r \in Replicas : \A m \in msgs : \A c \in Authors : \A n \in 1 .. Len(m.ds[c]) :
    Idle(r) => applyUpdateTruncated(docs[r], m, c, n).clients = docs[r].clients

\* the units of the structs a store holds
KnownUnits(clients) ==
  UNION {{<<c, k>> : k \in 0 .. getState(clients, c) - 1} : c \in Authors}

\* the content a unit carries, 0 when its struct carries none
ContentOrNone(clients, u) ==
  LET s == StructAtUnit(clients, u)
  IN IF s.kind = "ItemString" THEN s.content[u[2] - s.clock + 1] ELSE 0

StructsOf(clients, c) == {clients[c][k] : k \in 1 .. Len(clients[c])}

\* the calls of delete(transaction) a transaction recorded: one entry of
\* transaction.deleteSet per call, unit by unit
DeleteCalls(ds) ==
  UNION {UNION {{<<c, k, ds[c][k].clock + d>> : d \in 0 .. ds[c][k].len - 1}
                : k \in 1 .. Len(ds[c])}
         : c \in Authors}

\* (C27) readDeleteSet changes only what the received ranges name: delete is
\* called exactly once on each struct that was not deleted and lies, after
\* the splits at the range boundaries, inside a received range below the
\* state; every unit outside the received ranges keeps its deleted flag, its
\* content and its position; a struct that was deleted already is skipped
\* and is not split, and a struct no range touches is left as it was.
C27_ReadDeleteSetFrame ==
  \A r \in Replicas : \A m \in msgs :
    Idle(r) =>
      LET D == openTransaction(docs[r])
          E == readDeleteSet(D, m.ds)
          known == KnownUnits(D.clients)
          named == NamedUnits(m.ds)
          target == {u \in named \cap known : ~UnitDeleted(D.clients, u)}
      IN /\ KnownUnits(E.clients) = known
         /\ E.ord = D.ord
         /\ \A u \in known :
              /\ UnitDeleted(E.clients, u) <=> (UnitDeleted(D.clients, u) \/ u \in named)
              /\ ContentOrNone(E.clients, u) = ContentOrNone(D.clients, u)
         /\ NamedUnits(E.ds) = target
         /\ Cardinality(DeleteCalls(E.ds)) = Cardinality(target)
         /\ \A c \in Authors : \A k \in 1 .. Len(E.ds[c]) :
              \E s \in StructsOf(E.clients, c) :
                s.clock = E.ds[c][k].clock /\ Length(s) = E.ds[c][k].len
         /\ \A c \in Authors : \A s \in StructsOf(D.clients, c) :
              (s.deleted \/ {Units(s)[k] : k \in 1 .. Length(s)} \cap named = {})
                => s \in StructsOf(E.clients, c)

\* a replica has applied a delete of units in the middle of the text of the
\* other author: the units named are deleted, the unit before and the unit
\* after the range are not
C27_Witness ==
  \E r \in Replicas : \E m \in seen[r] : \E c \in Authors : \E k \in 1 .. Len(m.ds[c]) :
    LET d == m.ds[c][k]
        clients == docs[r].clients
    IN /\ Idle(r) /\ r # c
       /\ d.clock > 0 /\ d.clock + d.len < getState(clients, c)
       /\ \A clock \in d.clock .. (d.clock + d.len - 1) : UnitDeleted(clients, <<c, clock>>)
       /\ ~UnitDeleted(clients, <<c, d.clock - 1>>)
       /\ ~UnitDeleted(clients, <<c, d.clock + d.len>>)

\* a replica is about to read a delete set that names a unit it holds
\* deleted already and a unit it holds undeleted
C27_WitnessSkips ==
  \E r \in Replicas : \E m \in msgs \ seen[r] :
    LET known == KnownUnits(docs[r].clients)
    IN /\ Idle(r)
       /\ \E u \in NamedUnits(m.ds) \cap known : UnitDeleted(docs[r].clients, u)
       /\ \E u \in NamedUnits(m.ds) \cap known : ~UnitDeleted(docs[r].clients, u)

\* readDeleteSet of one range over an array that holds GC structs: every GC
\* and every ItemDeleted struct stays as it was, and the units of the range
\* below the state are deleted
C27_SkipsGC ==
  \A clock \in 0 .. MaxStructs * MaxStructLen : \A len \in 1 .. MaxStructLen :
    LET D == StoreOf(sstructs)
        E == readDeleteSet(D, [c \in Authors |-> IF c = 1 THEN <<DeleteItem(clock, len)>>
                                                  ELSE << >>])
    IN /\ \A s \in StructsOf(D.clients, 1) : s.deleted => s \in StructsOf(E.clients, 1)
       /\ \A k \in 0 .. getState(D.clients, 1) - 1 :
            UnitDeleted(E.clients, <<1, k>>)
              <=> (UnitDeleted(D.clients, <<1, k>>) \/ (clock <= k /\ k < clock + len))

\* the structs of a store that overlap a range of the delete set
Overlapping(clients, ds) ==
  UNION {{s \in StructsOf(clients, c) :
            \E k \in 1 .. Len(ds[c]) :
              s.clock < ds[c][k].clock + ds[c][k].len /\ ds[c][k].clock < s.clock + Length(s)}
         : c \in Authors}

\* (C28) After the gc pass of a transaction's cleanup every struct that
\* overlaps a range of the transaction's delete set and is a deleted item
\* has been replaced by gc(store, false): it is an ItemDeleted without
\* content; outside the cleanup of a transaction no replica holds a
\* deleted item that still carries content.
C28_GcPassDropsContent ==
  /\ (cur # 0 /\ pc = "merge") =>
       \A s \in Overlapping(docs[cur].clients, docs[cur].ds) :
         s.deleted => (s.kind \in {"ItemDeleted", "GC"} /\ s.content = << >>)
  /\ \A r \in Replicas : \A c \in Authors : \A s \in StructsOf(docs[r].clients, c) :
       (Idle(r) /\ s.deleted) => s.kind # "ItemString"

\* the gc pass of a transaction that applied a received delete has run: its
\* delete set names a range and the structs of the range are ItemDeleted
C28_Witness ==
  /\ cur # 0 /\ pc = "merge" /\ ~local
  /\ \E c \in Authors : docs[cur].ds[c] # << >>
  /\ \E s \in Overlapping(docs[cur].clients, docs[cur].ds) :
       s.kind = "ItemDeleted" /\ s.len >= 2

\* the gc pass is about to run over a deleted ItemString
C28_WitnessBefore ==
  /\ cur # 0 /\ pc = "gc"
  /\ \E s \in Overlapping(docs[cur].clients, docs[cur].ds) :
       s.deleted /\ s.kind = "ItemString"

\* the known units of a store whose struct is deleted
DeletedKnownUnits(clients) == {u \in KnownUnits(clients) : UnitDeleted(clients, u)}

\* (C32) createDeleteSetFromStructStore returns a sorted and merged delete
\* set that covers exactly the clock units of the deleted structs: the
\* ranges of a client are strictly increasing, neither adjacent nor
\* overlapping, each begins at the first struct of a maximal run of deleted
\* structs and ends with the last, and a client without deleted structs has
\* no entry.
C32_CreateDeleteSet ==
  \A r \in Replicas :
    LET clients == docs[r].clients
        ds == createDeleteSetFromStructStore(clients)
    IN /\ NamedUnits(ds) = DeletedKnownUnits(clients)
       /\ StrictlyApart(ds)
       /\ \A c \in Authors :
            /\ (\A s \in StructsOf(clients, c) : ~s.deleted) => ds[c] = << >>
            /\ \A k \in 1 .. Len(ds[c]) :
                 /\ ds[c][k].len >= 1
                 /\ \E s \in StructsOf(clients, c) : s.deleted /\ s.clock = ds[c][k].clock
                 /\ \E s \in StructsOf(clients, c) :
                      s.deleted /\ s.clock + Length(s) = ds[c][k].clock + ds[c][k].len

\* a replica holds an undeleted struct and two deleted structs in a row of
\* one client: the delete set of its store has one range over both structs
\* of the run, and no entry for the other client
C32_Witness ==
  \E r \in Replicas : \E c \in Authors :
    LET clients == docs[r].clients
        ds == createDeleteSetFromStructStore(clients)
    IN /\ Len(ds[c]) = 1
       /\ \E s \in StructsOf(clients, c) :
            s.deleted /\ s.clock = ds[c][1].clock /\ Length(s) < ds[c][1].len
       /\ \E s \in StructsOf(clients, c) : ~s.deleted
       /\ \E d \in Authors : ds[d] = << >>

\* the delete set of a replica's store has two ranges for one client
C32_WitnessTwoRanges ==
  \E r \in Replicas : \E c \in Authors :
    Len(createDeleteSetFromStructStore(docs[r].clients)[c]) = 2

\* the id lies in no struct of the store
Unused(clients, id) ==
  \A s \in StructsOf(clients, id[1]) : ~(s.clock <= id[2] /\ id[2] < s.clock + Length(s))

\* (C33) getState(store, c) is 0 for a client without structs and otherwise
\* last.id.clock + last.length, and getStateVector agrees with getState on
\* every client; a struct created with the id nextID returns is accepted by
\* addStruct, after which getState of the local client has grown by exactly
\* the struct's length and nextID returns an id that no struct holds.
C33_NextIDAccepted ==
  \A r \in Authors : \A len \in 1 .. MaxInsertLen :
    LET clients == docs[r].clients
        id == nextID(clients, r)
        res == addStruct(clients, Candidate(id[1], id[2], len))
    IN /\ \A c \in Authors :
            /\ getState(clients, c) =
                 (IF clients[c] = << >> THEN 0
                  ELSE clients[c][Len(clients[c])].clock + Length(clients[c][Len(clients[c])]))
            /\ getStateVector(clients)[c] = getState(clients, c)
       /\ Unused(clients, id)
       /\ res.ok
       /\ getState(res.clients, r) = getState(clients, r) + len
       /\ \A c \in Authors \ {r} : getState(res.clients, c) = getState(clients, c)
       /\ nextID(res.clients, r) = <<r, id[2] + len>>
       /\ Unused(res.clients, nextID(res.clients, r))
       /\ ~Unused(res.clients, id)

\* a client that holds structs of its own and of the other client is about
\* to create a struct: nextID is above zero
C33_Witness ==
  \E r \in Authors :
    /\ Idle(r)
    /\ Len(docs[r].clients[r]) >= 2
    /\ \E c \in Authors \ {r} : docs[r].clients[c] # << >>
    /\ nextID(docs[r].clients, r)[2] >= 2
    /\ addStruct(docs[r].clients, Candidate(r, nextID(docs[r].clients, r)[2], 1)).ok

\* the ItemStrings of a replica's store
ItemStrings(r) ==
  {s \in UNION {StructsOf(docs[r].clients, c) : c \in Authors} : s.kind = "ItemString"}

\* (C34) ItemString.splitAt(tx, diff) with 0 < diff < length leaves the left
\* half at the original id with length diff and content string[0, diff), and
\* returns a right half with id (client, clock + diff), length length - diff
\* and content string[diff, length); the two contents concatenated are the
\* original string, and mergeWith of the right half restores the original
\* content and length.
C34_SplitMergeRoundTrip ==
  \A r \in Replicas : \A s \in ItemStrings(r) : \A diff \in 1 .. Length(s) - 1 :
    LET sp == splitAt(s, diff)
        left == sp[1]
        right == sp[2]
        merged == mergeWith(docs[r].ord, left, right)
    IN /\ IdOf(left) = IdOf(s)
       /\ Length(left) = diff
       /\ left.content = [k \in 1 .. diff |-> s.content[k]]
       /\ IdOf(right) = <<s.client, s.clock + diff>>
       /\ Length(right) = Length(s) - diff
       /\ right.content = [k \in 1 .. Length(s) - diff |-> s.content[diff + k]]
       /\ left.content \o right.content = s.content
       /\ merged.ok
       /\ merged.left.content = s.content
       /\ Length(merged.left) = Length(s)
       /\ IdOf(merged.left) = IdOf(s)

\* an ItemString of three units is split at 1 and at 2 and merged back
C34_Witness ==
  \E r \in Replicas : \E s \in ItemStrings(r) :
    /\ Length(s) >= 3
    /\ \A diff \in {1, 2} :
         mergeWith(docs[r].ord, splitAt(s, diff)[1], splitAt(s, diff)[2]).left = s

\* the store holds the two halves of a split the program performed
C34_WitnessSplit ==
  \E r \in Replicas : \E c \in Authors : \E k \in 1 .. Len(docs[r].clients[c]) - 1 :
    LET left == docs[r].clients[c][k]
        right == docs[r].clients[c][k + 1]
    IN /\ \E m \in 1 .. Len(docs[r].ms) : docs[r].ms[m] = IdOf(right)
       /\ left.kind = "ItemString" /\ right.kind = "ItemString"
       /\ right.origin = LastId(left)
       /\ right.clock = left.clock + Length(left)

\* (C36) Deletion is permanent: a clock unit whose struct has deleted = true
\* is deleted in every later state, across splits, gc, merges, local edits
\* and applied updates.
C36_DeletionPermanent ==
  [][\A r \in Replicas : \A u \in KnownUnits(docs[r].clients) :
       UnitDeleted(docs[r].clients, u) =>
         (u \in KnownUnits(docs'[r].clients) /\ UnitDeleted(docs'[r].clients, u))]_vars

\* a unit deleted by a transaction whose cleanup has ended (gc and merge
\* pass included) stands in a deleted struct of two or more units, on a
\* replica that went on to apply an update and holds live content
C36_Witness ==
  \E r \in Replicas : \E u \in KnownUnits(docs[r].clients) :
    /\ cur = 0
    /\ nDeliv >= 1
    /\ UnitDeleted(docs[r].clients, u)
    /\ StructAtUnit(docs[r].clients, u).kind # "ItemString"
    /\ Length(StructAtUnit(docs[r].clients, u)) >= 2
    /\ \E v \in KnownUnits(docs[r].clients) : ~UnitDeleted(docs[r].clients, v)

\* the logical log of a store: the clock units, each with its content and
\* its deleted flag
LogOf(clients) ==
  [u \in KnownUnits(clients) |-> <<ContentOrNone(clients, u), UnitDeleted(clients, u)>>]

\* E differs from D in struct boundaries only
SameLog(D, E) ==
  /\ getStateVector(E.clients) = getStateVector(D.clients)
  /\ LogOf(E.clients) = LogOf(D.clients)
  /\ E.ord = D.ord

StructCount(D) == Len(D.clients[1]) + Len(D.clients[2])

\* (C37) Splitting and merging are invisible to the logical log:
\* getItemCleanStart, getItemCleanEnd, the splits made by readDeleteSet and
\* the merges of the cleanup pass leave the state vector unchanged and
\* leave, for every client, the set of clock units with each unit's content
\* and deleted flag unchanged (readDeleteSet: the deleted flag of the units
\* the received ranges do not name).
C37_SplitMergeInvisible ==
  \A r \in Replicas :
    /\ \A id \in KnownUnits(docs[r].clients) :
         /\ SameLog(docs[r], getItemCleanStart(docs[r], id))
         /\ SameLog(docs[r], getItemCleanEnd(docs[r], id))
    /\ (cur = r /\ pc = "merge") => SameLog(docs[r], mergePass(docs[r]))
    /\ Idle(r) =>
         \A m \in msgs :
           LET D == openTransaction(docs[r])
               E == readDeleteSet(D, m.ds)
           IN /\ getStateVector(E.clients) = getStateVector(D.clients)
              /\ KnownUnits(E.clients) = KnownUnits(D.clients)
              /\ \A u \in KnownUnits(D.clients) :
                   /\ ContentOrNone(E.clients, u) = ContentOrNone(D.clients, u)
                   /\ u \notin NamedUnits(m.ds) =>
                        (UnitDeleted(E.clients, u) <=> UnitDeleted(D.clients, u))

\* the merge pass is about to merge structs of a replica on which
\* getItemCleanStart and getItemCleanEnd each split a struct
C37_Witness ==
  \E r \in Replicas :
    /\ cur = r /\ pc = "merge"
    /\ StructCount(mergePass(docs[r])) < StructCount(docs[r])
    /\ \E u \in KnownUnits(docs[r].clients) :
         ContentOrNone(mergePass(docs[r]).clients, u) # 0
           /\ StructAtUnit(mergePass(docs[r]).clients, u) # StructAtUnit(docs[r].clients, u)
    /\ \E id \in KnownUnits(docs[r].clients) :
         StructCount(getItemCleanStart(docs[r], id)) = StructCount(docs[r]) + 1
    /\ \E id \in KnownUnits(docs[r].clients) :
         StructCount(getItemCleanEnd(docs[r], id)) = StructCount(docs[r]) + 1

\* a replica is about to read a delete set that makes readDeleteSet split
\* a struct at both ends of a range
C37_WitnessReadSplits ==
  \E r \in Replicas : \E m \in msgs :
    /\ Idle(r)
    /\ StructCount(readDeleteSet(openTransaction(docs[r]), m.ds)) = StructCount(docs[r]) + 2

\* (C38) sortAndMergeDeleteSet is idempotent and coverage-preserving: the
\* set of (client, clock) units the delete set covers is the same before and
\* after the call, and a second call leaves the ranges unchanged.
C38_SortAndMergeIdempotent ==
  upc = "sorted" =>
    /\ NamedUnits(usorted) = NamedUnits(uds)
    /\ \A c \in Authors : \A clock \in ProbeClocks :
         Covered(usorted, c, clock) <=> Covered(uds, c, clock)
    /\ sortAndMergeDeleteSet(usorted) = usorted
    /\ \A c \in Authors : (usorted[c] = << >>) <=> (uds[c] = << >>)

\* three ranges were added out of order, two of them adjacent: the call
\* sorted and merged them into two, and a second call changes nothing
C38_Witness ==
  /\ upc = "sorted"
  /\ \E c \in Authors :
       /\ Len(uds[c]) = 3
       /\ uds[c][1].clock > uds[c][2].clock
       /\ Len(usorted[c]) = 2
       /\ usorted[c] # SubSeq(uds[c], 1, 2)
  /\ sortAndMergeDeleteSet(usorted) = usorted
  /\ NamedUnits(usorted) = NamedUnits(uds)

\* the same with ranges that overlap
C38_WitnessOverlap ==
  /\ upc = "sorted"
  /\ ~PairwiseDisjoint(uds)
  /\ \E c \in Authors : Len(uds[c]) = 3 /\ Len(usorted[c]) = 2
  /\ sortAndMergeDeleteSet(usorted) = usorted

\* (C29) Whenever the deep handlers of a type are called for a transaction,
\* the list of events passed to them holds at least one event, also when
\* events were removed because their target is deleted.
C29_DeepEventsNotEmpty ==
  \A call \in hcalls : call.events # << >>

\* the deep handlers of the root type were called with one event left after
\* the event of a deleted type was removed
C29_WitnessFiltered ==
  \E call \in hcalls :
    call.type = "root" /\ Len(call.recorded) = 2 /\ Len(call.events) = 1

\* the structs of the array that belong to a key
StructsOfKey(key) == {s \in {kstructs[j] : j \in 1 .. Len(kstructs)} : s.parentSub = key}

\* (C30) When the merge pass merges a struct away, no sub-key map keeps
\* pointing at the removed struct: every entry of parent._map refers to a
\* struct that is present in the client's array, a struct of that key that
\* holds the latest item of the key; a key that was set has an entry.
C30_MapEntriesInStore ==
  \A key \in Keys :
    IF kmap[key] = NoEntry THEN StructsOfKey(key) = {}
    ELSE \E s \in StructsOfKey(key) :
           /\ s.clock = kmap[key]
           /\ \A o \in StructsOfKey(key) : o.clock <= s.clock

\* the entry of key "a" was merged away and redirected: the key was set
\* twice and deleted, the one struct left holds both items and is the entry
C30_Witness ==
  /\ kpc = "idle"
  /\ kmap["a"] = 0
  /\ \E s \in StructsOfKey("a") : s.clock = 0 /\ s.kind = "ItemDeleted" /\ s.len >= 2

\* the struct of the array before the call that holds the clock of the call
Containing == At(scall.before, scall.index)

\* the array after the call is the array before it with the containing struct
\* cut into two at clock `at` (the right half directly after the left), or
\* the same array when `at` is a boundary of the containing struct
CutAt(at) ==
  IF at = Containing.clock \/ at = Containing.clock + Length(Containing)
  THEN sstructs = scall.before
  ELSE /\ Len(sstructs) = Len(scall.before) + 1
       /\ \A j \in 0 .. Len(scall.before) - 1 :
            j # scall.index =>
              At(sstructs, IF j < scall.index THEN j ELSE j + 1) = At(scall.before, j)
       /\ At(sstructs, scall.index).clock = Containing.clock
       /\ Length(At(sstructs, scall.index)) = at - Containing.clock
       /\ At(sstructs, scall.index + 1).clock = at
       /\ Length(At(sstructs, scall.index + 1)) = Containing.clock + Length(Containing) - at
       /\ At(sstructs, scall.index).kind = Containing.kind
       /\ At(sstructs, scall.index + 1).kind = Containing.kind
       /\ At(sstructs, scall.index).content \o At(sstructs, scall.index + 1).content
            = Containing.content

\* (C23) as stated: getItemCleanStart, for an id within the known state,
\* returns the struct that begins exactly at id.clock, splitting the
\* containing struct when id.clock lies strictly inside it; a GC struct is
\* never split.
C23_CleanStartBeginsAtId ==
  scall.op = "getItemCleanStart" =>
    /\ scall.struct.clock = scall.clock
    /\ scall.struct = At(sstructs, findIndexSS(sstructs, scall.clock))
    /\ IF Containing.kind = "GC" THEN sstructs = scall.before ELSE CutAt(scall.clock)

\* (C23) amended: when the containing struct is not a GC, getItemCleanStart
\* returns the struct that begins exactly at id.clock, splitting the
\* containing struct when id.clock lies strictly inside it; a GC struct is
\* never split: it is returned whole, also when it begins before id.clock.
C23_CleanStartUnlessGC ==
  scall.op = "getItemCleanStart" =>
    /\ scall.struct = At(sstructs, findIndexSS(sstructs, scall.clock))
    /\ IF Containing.kind = "GC"
       THEN sstructs = scall.before /\ scall.struct = Containing
       ELSE scall.struct.clock = scall.clock /\ CutAt(scall.clock)

\* an ItemString was split at a clock strictly inside it
C23_Witness ==
  /\ scall.op = "getItemCleanStart"
  /\ Len(scall.before) = MaxStructs
  /\ Containing.kind = "ItemString"
  /\ scall.index = 1
  /\ Containing.clock < scall.clock
  /\ scall.struct.clock = scall.clock
  /\ Len(sstructs) = MaxStructs + 1

\* a GC that begins before the clock was returned whole
C23_WitnessGC ==
  /\ scall.op = "getItemCleanStart"
  /\ Containing.kind = "GC" /\ Containing.clock < scall.clock
  /\ scall.struct = Containing /\ sstructs = scall.before

\* (C24) as stated: getItemCleanEnd, for an id within the known state,
\* returns the struct that ends exactly at id.clock + 1, splitting the
\* containing struct when needed and inserting the right half directly
\* after it in the client's array.
C24_CleanEndEndsAtId ==
  scall.op = "getItemCleanEnd" =>
    /\ scall.struct.clock + Length(scall.struct) = scall.clock + 1
    /\ scall.struct = At(sstructs, findIndexSS(sstructs, scall.clock))
    /\ CutAt(scall.clock + 1)

\* (C24) amended: when the containing struct is not a GC, getItemCleanEnd
\* returns the struct that ends exactly at id.clock + 1, splitting the
\* containing struct when needed and inserting the right half directly
\* after it; a GC struct is returned whole and unsplit, also when it ends
\* after id.clock + 1.
C24_CleanEndUnlessGC ==
  scall.op = "getItemCleanEnd" =>
    /\ scall.struct = At(sstructs, findIndexSS(sstructs, scall.clock))
    /\ IF Containing.kind = "GC"
       THEN sstructs = scall.before /\ scall.struct = Containing
       ELSE /\ scall.struct.clock + Length(scall.struct) = scall.clock + 1
            /\ CutAt(scall.clock + 1)

\* an ItemDeleted was split after a clock that was not its last
C24_Witness ==
  /\ scall.op = "getItemCleanEnd"
  /\ Len(scall.before) = MaxStructs
  /\ Containing.kind = "ItemDeleted"
  /\ scall.index = 1
  /\ scall.clock + 1 < Containing.clock + Length(Containing)
  /\ scall.struct.clock + Length(scall.struct) = scall.clock + 1
  /\ Len(sstructs) = MaxStructs + 1

C24_WitnessGC ==
  /\ scall.op = "getItemCleanEnd"
  /\ Containing.kind = "GC" /\ scall.clock + 1 < Containing.clock + Length(Containing)
  /\ scall.struct = Containing /\ sstructs = scall.before

\* (C25) findIndexSS on a contiguous array terminates: with a clock within
\* the known state it returns the one index i with structs[i].id.clock <=
\* clock < structs[i].id.clock + structs[i].length; with a clock outside it
\* throws.
C25_FindIndexSS ==
  scall.op = "findIndexSS" =>
    IF scall.clock < getState([EmptyClients EXCEPT ![1] = scall.before], 1)
    THEN /\ scall.index \in 0 .. Len(scall.before) - 1
         /\ \A j \in 0 .. Len(scall.before) - 1 :
              (At(scall.before, j).clock <= scall.clock
               /\ scall.clock < At(scall.before, j).clock + Length(At(scall.before, j)))
              <=> j = scall.index
    ELSE scall.index = Thrown

\* the search found the first struct of three, of length one
C25_Witness ==
  /\ scall.op = "findIndexSS"
  /\ Len(scall.before) = MaxStructs
  /\ scall.index = 0 /\ scall.clock = 0
  /\ Length(At(scall.before, 0)) = 1

C25_WitnessThrown ==
  /\ scall.op = "findIndexSS"
  /\ Len(scall.before) = MaxStructs
  /\ scall.index = Thrown

C12_Witness ==
  \E r \in Replicas : \E c \in Authors :
    /\ r # c
    /\ cur = 0
    /\ \E k \in 1 .. Len(docs[r].clients[c]) : Length(docs[r].clients[c][k]) > MaxInsertLen

\* ------------------------------------------------- transact: observations
Changed(t, y) == InSeq(y, changed[t])
Created == 1 .. nTx
CallbackKinds == {"observer", "deep", "update"}

\* a frame of the stack is inside the cleanup iteration of transaction u
Cleaning(u) ==
  \E j \in 1 .. Len(stack) :
    /\ stack[j].kind = "transact"
    /\ stack[j].pc \in {"observers", "deep", "passes", "end"}
    /\ stack[j].i < Len(cleanups)
    /\ At(cleanups, stack[j].i) = u

\* every observed type the transaction changed had its observer called
\* exactly once, and its cleanup iteration ran to the end
Delivered(t) ==
  /\ t \in done
  /\ \A y \in ShallowObserved : Changed(t, y) => obsCalls[t][y] = 1

\* (C22) as stated: the origin passed to the call of transact that opens a
\* transaction is stored on transaction.origin and is delivered with the
\* transaction's update; every mutation is reported under the origin of the
\* call of transact that performed it.
C22_OriginOfPerformingCall ==
  /\ \A t \in Created : txOrigin[t] # 0 /\ (updCalls[t] > 0 => updOrigin[t] = txOrigin[t])
  /\ \A m \in reported : txOrigin[m.tx] = m.call

\* (C22) amended: the origin passed to the call of transact that opens a
\* transaction is stored on transaction.origin and is delivered with the
\* transaction's update; a mutation is reported under the origin of the call
\* that opened the transaction it belongs to, and the origin of a call of
\* transact made while a transaction is set on the document is ignored.
C22_OriginOfOpeningCall ==
  /\ \A t \in Created : txOrigin[t] # 0 /\ (updCalls[t] > 0 => updOrigin[t] = txOrigin[t])
  /\ \A m \in reported : m.initial <=> txOrigin[m.tx] = m.call

\* an update was emitted for a transaction that holds a mutation of the call
\* that opened it and a mutation of a call that joined it
C22_Witness ==
  \E t \in Created : \E m1, m2 \in reported :
    /\ updCalls[t] > 0 /\ updOrigin[t] = txOrigin[t]
    /\ m1.tx = t /\ m1.initial
    /\ m2.tx = t /\ ~m2.initial /\ m2.call # txOrigin[t]

\* the order of the document-level steps of one transaction
StepOrder ==
  <<"beforeTransaction", "body", "beforeObserverCalls", "observers", "deep",
    "afterTransaction", "gc", "merge", "afterTransactionCleanup", "update">>

IsPrefixOf(s, t) == Len(s) <= Len(t) /\ \A j \in 1 .. Len(s) : s[j] = t[j]

\* (C26) The document-level steps of every transaction occur in the order
\* beforeTransaction, body, beforeObserverCalls, shallow observers, deep
\* observers, afterTransaction, gc pass, merge pass, afterTransactionCleanup,
\* update event: the steps made so far are a beginning of that order; the
\* body runs before any step of the cleanup; a shallow observer runs when the
\* steps up to the shallow observers have begun and a deep handler when the
\* steps up to the deep observers have, both before the gc pass and the merge
\* pass; an update listener runs when every step has been made; a transaction
\* whose cleanup iteration ended went through every step up to
\* afterTransactionCleanup.
C26_StepOrder ==
  /\ \A t \in TxIds : IsPrefixOf(steps[t], StepOrder)
  /\ (InBody /\ txn # 0) => steps[txn] = SubSeq(StepOrder, 1, 2)
  /\ \A j \in 1 .. Len(stack) :
       /\ stack[j].kind = "observer" => steps[stack[j].tx] = SubSeq(StepOrder, 1, 4)
       /\ stack[j].kind = "deep" => steps[stack[j].tx] = SubSeq(StepOrder, 1, 5)
       /\ stack[j].kind = "update" => steps[stack[j].tx] = StepOrder
  /\ \A t \in done : Len(steps[t]) >= 9

\* an update listener of a transaction runs whose shallow observer and deep
\* handler have been called: all ten steps have been made
C26_Witness ==
  \E t \in Created : \E y \in Types :
    /\ steps[t] = StepOrder
    /\ obsCalls[t][y] > 0 /\ \E z \in Types : deepCalls[t][z] > 0
    /\ stack # << >> /\ Top.kind = "update" /\ Top.tx = t

\* a transaction whose cleanup ended without an update event
C26_WitnessNoUpdate ==
  \E t \in done : steps[t] = SubSeq(StepOrder, 1, 9)

\* (C5) Whenever a type observer or a deep observer is invoked during the
\* cleanup of a transaction, doc._transaction is null, also when an earlier
\* observer of the same pass opened a transaction by calling transact.
C5_ObserverAtomicity ==
  \A j \in 1 .. Len(stack) :
    stack[j].kind \in {"observer", "deep"} => stack[j].seenTxn = 0

\* (C6) While the body of a transact call that created its transaction runs,
\* no observer, deep observer or update listener is delivered; once the
\* caller of the document has control again, each changed type's observer
\* was called exactly once for each transaction and at most one update event
\* was emitted for it.
C6_Bundling ==
  /\ \A j \in 1 .. Len(stack) : \A k \in 1 .. Len(stack) :
       (j < k /\ stack[j].kind = "transact" /\ stack[j].pc = "body")
         => stack[k].kind \notin CallbackKinds
  /\ \A t \in Created : updCalls[t] <= 1
  /\ (stack = << >> /\ ~unwinding) =>
       \A t \in Created : \A y \in ShallowObserved :
         Changed(t, y) => obsCalls[t][y] = 1

\* (C7) A transaction created by a call of transact made in a callback
\* during the cleanup of T starts its own cleanup only after T's cleanup ran
\* to its end, and the queued transactions are cleaned up in the order of
\* their creation.
C7_QueuedNotNested ==
  \A t \in started :
    /\ openedIn[t].tx # 0 => (openedIn[t].tx \in done /\ ~Cleaning(openedIn[t].tx))
    /\ \A u \in Created : u < t => u \in done

C7_Witness ==
  \E t \in started :
    /\ openedIn[t].tx # 0
    /\ openedIn[t].tx \in done
    /\ t \notin done
    /\ stack # << >>
    /\ Top.kind = "observer"
    /\ Top.tx = t

\* (C8) With callbacks that do not throw: an observer is never called while
\* an observer is running, no observer is called twice for a transaction,
\* and every transaction placed on the cleanup queue eventually has its
\* observers delivered, so that an observer that modified its type is called
\* again for that modification.
C8_Redelivery ==
  /\ [](\A j \in 1 .. Len(stack) : \A k \in 1 .. Len(stack) :
          (j < k /\ stack[j].kind = "observer") => stack[k].kind # "observer")
  /\ [](\A t \in TxIds : \A y \in Types : obsCalls[t][y] <= 1)
  /\ \A t \in TxIds : [](t \in Created => <>Delivered(t))

C8_Witness ==
  \E t \in done :
    /\ openedIn[t].kind = "observer"
    /\ Changed(t, openedIn[t].type)
    /\ Changed(openedIn[t].tx, openedIn[t].type)
    /\ obsCalls[t][openedIn[t].type] = 1
    /\ Delivered(t)
    /\ Delivered(openedIn[t].tx)

\* (C9) When the body of a transact call that created its transaction throws
\* after mutations, the cleanup of that transaction has run, with the
\* observers of the changed types delivered, by the time the failure leaves
\* the call.
C9_CleanupOnThrow ==
  \A r \in threwRet :
    changed[r.tx] # << >> =>
      /\ r.cleaned
      /\ \A y \in ShallowObserved : Changed(r.tx, y) => obsCalls[r.tx][y] = 1

\* (C35) Whenever an outermost transact call has finished, by returning or by
\* an exception that left it (from the body, an observer or a listener run
\* during the cleanup), doc._transaction is null and the cleanup queue is
\* empty.
C35_CleanAfterTransact ==
  (stack = << >> /\ ~unwinding) => (txn = 0 /\ cleanups = << >>)

\* the same for the calls no exception left: it holds with callbacks that
\* do not throw
C35_CleanAfterReturn ==
  (stack = << >> /\ ~unwinding /\ nThrows = 0) => (txn = 0 /\ cleanups = << >>)

\* the queue alone: an exception of the body leaves it empty
C35_QueueEmptyAfterBodyThrow ==
  (/\ stack = << >>
   /\ ~unwinding
   /\ \A t \in Created : obsCalls[t] = [y \in Types |-> 0]
   /\ \A t \in Created : deepCalls[t] = [y \in Types |-> 0]
   /\ \A t \in Created : updCalls[t] = 0)
    => (txn = 0 /\ cleanups = << >>)

\* (C39) Echo termination: with two documents wired so that each applies
\* every 'update' event of the other, a local change causes finitely many
\* update events (its own and the one of the document that applies it);
\* applying an update that brings nothing new advances no state and deletes
\* nothing, hence emits no update; afterwards both documents hold the same
\* content.
C39_EchoTermination ==
  /\ wevents <= 2
  /\ Len(wflight) <= 1
  /\ \A r \in Replicas : \A m \in wknown[r] :
       LET T == applyUpdate(wdocs[r], m)
       IN /\ T.as = T.bs
          /\ T.ds = EmptyDS
          /\ computeUpdateMessageFromTransaction(T) = NoMsg
          /\ closeTransaction(T) = wdocs[r]
  /\ wflight = << >> =>
       /\ toArray(wdocs[1]) = toArray(wdocs[2])
       /\ wdocs[1].ord = wdocs[2].ord
       /\ LogOf(wdocs[1].clients) = LogOf(wdocs[2].clients)
       /\ wknown[1] = wknown[2]

\* a local change went to the other document and came back: two update
\* events, nothing in flight, both documents with the same content, after
\* inserts of both documents and a delete
C39_Witness ==
  /\ wflight = << >>
  /\ wevents = 2
  /\ wops = MaxWiredOps
  /\ toArray(wdocs[1]) = toArray(wdocs[2])
  /\ toArray(wdocs[1]) # << >>
  /\ \A c \in Authors : wdocs[1].clients[c] # << >>
  /\ \E u \in KnownUnits(wdocs[1].clients) : UnitDeleted(wdocs[1].clients, u)

\* the echo is in flight: the update the receiver emitted goes back to the
\* document that made the change
C39_WitnessEcho ==
  /\ wevents = 2
  /\ wflight # << >>
  /\ Head(wflight).msg \in wknown[Head(wflight).to]
  /\ Head(wflight).msg.ds # EmptyDS

====
